---- MODULE Spec2Model ----
(***************************************************************************)
(* State-machine model of the restaurant bot's store (DatabaseHelper,     *)
(* src/database/db_helper.py) and of the handlers that drive it.          *)
(*                                                                         *)
(* Money is kept in cents (12.00 -> 1200).  Every menu price is a whole    *)
(* number of dollars and promo values are drawn from integers, so the      *)
(* percentage discount  total * (value / 100)  is an exact number of       *)
(* cents.  Wall-clock time is kept in minutes.                             *)
(***************************************************************************)
EXTENDS Integers, FiniteSets, Sequences, TLC

\* ---------------------------------------------------------------- bounds
MaxQty == 2
MaxOrders == 2
MaxReservations == 1
MaxReviews == 2
MaxTime == 6
MaxOps == 4
MaxTasks == 2
MaxAddresses == 2

\* ------------------------------------------------------------- constants
ORDER_STATUS_PENDING == "pending"
ORDER_STATUS_CONFIRMED == "confirmed"
ORDER_STATUS_PREPARING == "preparing"
ORDER_STATUS_READY == "ready"
ORDER_STATUS_DELIVERED == "delivered"
ORDER_STATUS_CANCELLED == "cancelled"

ORDER_STATUSES ==
    { ORDER_STATUS_PENDING, ORDER_STATUS_CONFIRMED, ORDER_STATUS_PREPARING,
      ORDER_STATUS_READY, ORDER_STATUS_DELIVERED, ORDER_STATUS_CANCELLED }

\* timedelta(minutes=5) of the cancel handler
time_limit == 5

\* config.admin_id
admin_id == 9

\* the largest quantity validate_quantity accepts
QuantityLimit == 100

\* Python's None
None == "None"

\* the users the operations are tried with
Users == {1, 2}

\* ------------------------------------------------------------------ state
VARIABLES
    menu,                 \* data["menu"]: item id -> [price, available]
    users,                \* data["users"]: user id -> profile
    carts,                \* data["carts"]: user id -> cart
    orders,               \* data["orders"]: order id -> order
    reservations,         \* data["reservations"]
    reviews,              \* data["reviews"]
    promo_codes,          \* data["promo_codes"]: code -> promo record
    order_counter,
    reservation_counter,
    review_counter,
    settings,             \* data["settings"]
    now,                  \* datetime.now(), in minutes
    resp,                 \* the last operation and what it returned
    nops,                 \* number of operations performed so far
    file,                 \* the document in db_file: the store as last saved
    tasks                 \* the handler invocations in flight on the event loop

store ==
    << menu, users, carts, orders, reservations, reviews, promo_codes,
       order_counter, reservation_counter, review_counter, settings >>

vars == << store, now, resp, nops, file, tasks >>

\* ------------------------------------------------------------ default data
DefaultMenu ==
    ( 1 :> [price |-> 1200, available |-> TRUE] ) @@
    ( 2 :> [price |-> 1400, available |-> TRUE] ) @@
    ( 3 :> [price |-> 1500, available |-> TRUE] ) @@
    ( 4 :> [price |-> 1000, available |-> TRUE] ) @@
    ( 5 :> [price |-> 1100, available |-> TRUE] ) @@
    ( 6 :> [price |-> 900, available |-> TRUE] ) @@
    ( 7 :> [price |-> 300, available |-> TRUE] ) @@
    ( 8 :> [price |-> 400, available |-> TRUE] ) @@
    ( 9 :> [price |-> 500, available |-> TRUE] )

DefaultSettings == [delivery_fee |-> 250, min_order |-> 1500]

EmptyMap == << >>

\* The cart record get_cart and clear_cart write.  Its created_at stamp is read
\* by no code and is left out.
EmptyCart == [items |-> EmptyMap, total |-> 0, discount |-> 0, promo_code |-> None]

\* The profile get_user creates.  An entry of addresses is the dict the caller
\* passed, kept by reference: obj is the identity of that dict.
DefaultUser == [loyalty_points |-> 0, total_orders |-> 0, addresses |-> << >>]

\* The promo table of the persistence file the store is constructed from: one
\* record, switched off.  (No operation of the store clears is_active; a
\* switched-off record can only come from the file.)
LoadedPromoCodes ==
    "OLD" :> [discount_type |-> "fixed", discount_value |-> 500, min_order |-> 0,
              max_uses |-> None, used_count |-> 0, is_active |-> FALSE]

\* ------------------------------------------------------------- event loop
\* A handler invocation is a coroutine: pc is "idle" before the update arrives,
\* "ready" once it is dispatched, "awaiting" while it is suspended at an await,
\* "done" when it has returned; local holds the quantity the handler read.
TaskIds == 1 .. MaxTasks

IdleTask ==
    [handler |-> None, caller |-> 0, arg |-> 0, pc |-> "idle", local |-> 0,
     result |-> None]

NoTasks == [k \in TaskIds |-> IdleTask]

\* What the last operation was called with and what it returned: the caller,
\* the id it names (arg), the promo code, the quantity and the order status
\* it was given, and the answer a callback handler ended with (ending).
Response(op, caller, arg, result) ==
    [op |-> op, caller |-> caller, arg |-> arg, result |-> result,
     code |-> None, quantity |-> 0, status |-> None, ending |-> None]

Init ==
    /\ menu = DefaultMenu
    /\ users = EmptyMap
    /\ carts = EmptyMap
    /\ orders = EmptyMap
    /\ reservations = EmptyMap
    /\ reviews = EmptyMap
    /\ promo_codes = LoadedPromoCodes
    /\ order_counter = 1
    /\ reservation_counter = 1
    /\ review_counter = 1
    /\ settings = DefaultSettings
    /\ now = 0
    /\ resp = Response("init", 0, 0, "ok")
    /\ nops = 0
    /\ file = store
    /\ tasks = NoTasks

\* ---------------------------------------------------------------- helpers
Min(a, b) == IF a <= b THEN a ELSE b

\* m with key k set to v (a dict assignment)
Put(m, k, v) == [x \in (DOMAIN m) \cup {k} |-> IF x = k THEN v ELSE m[x]]

\* m without key k (del m[k])
Del(m, k) == [x \in (DOMAIN m) \ {k} |-> m[x]]

\* get_item_by_id(item_id) is not None;  the item is then menu[item_id]
get_item_by_id(item_id) == item_id \in DOMAIN menu

\* get_promo_code(code) is not None;  the record is then promo_codes[code]
get_promo_code(code) == code \in DOMAIN promo_codes

\* mutant: the is_active flag not looked at
PromoUsable_exists_only(code) == get_promo_code(code)

\* promo and promo.get("is_active", True)
PromoUsable(code) == get_promo_code(code) /\ promo_codes[code].is_active

\* get_cart: the carts table after the lazy creation of the user's record
get_cart(cs, user_id) ==
    IF user_id \in DOMAIN cs THEN cs ELSE Put(cs, user_id, EmptyCart)

\* get_user: the users table after the lazy creation of the user's record
get_user(us, user_id) ==
    IF user_id \in DOMAIN us THEN us ELSE Put(us, user_id, DefaultUser)

\* mutant: the percentage discount capped at the total
calculate_discount_capped(total, promo) ==
    IF promo.discount_type = "percentage"
    THEN Min((total * promo.discount_value) \div 100, total)
    ELSE Min(promo.discount_value, total)

calculate_discount(total, promo) ==
    IF promo.discount_type = "percentage"
    THEN (total * promo.discount_value) \div 100
    ELSE Min(promo.discount_value, total)

\* mutant: an unavailable item still counted
ItemTotal_ignores_availability(item_id, quantity) ==
    IF get_item_by_id(item_id) THEN menu[item_id].price * quantity ELSE 0

\* the contribution of one cart entry to the total
ItemTotal(item_id, quantity) ==
    IF get_item_by_id(item_id) /\ menu[item_id].available
    THEN menu[item_id].price * quantity
    ELSE 0

RECURSIVE SumItems(_, _)
SumItems(items, ids) ==
    IF ids = {} THEN 0
    ELSE LET i == CHOOSE x \in ids : TRUE
         IN  ItemTotal(i, items[i]) + SumItems(items, ids \ {i})

update_cart_total_keeps_code(cs, user_id) ==
    LET cs1 == get_cart(cs, user_id)
        cart == cs1[user_id]
        total == SumItems(cart.items, DOMAIN cart.items)
        cart2 ==
            IF cart.promo_code /= None
            THEN IF PromoUsable(cart.promo_code)
                 THEN [cart EXCEPT !.total = total,
                                   !.discount = calculate_discount(
                                       total, promo_codes[cart.promo_code])]
                 ELSE [cart EXCEPT !.total = total, !.discount = 0]
            ELSE [cart EXCEPT !.total = total, !.discount = 0]
    IN  [cs1 EXCEPT ![user_id] = cart2]

\* mutant: the discount taken from the total stored before the recomputation
update_cart_total_stale_discount(cs, user_id) ==
    LET cs1 == get_cart(cs, user_id)
        cart == cs1[user_id]
        total == SumItems(cart.items, DOMAIN cart.items)
        cart2 ==
            IF cart.promo_code /= None
            THEN IF PromoUsable(cart.promo_code)
                 THEN [cart EXCEPT !.total = total,
                                   !.discount = calculate_discount(
                                       cart.total, promo_codes[cart.promo_code])]
                 ELSE [cart EXCEPT !.total = total, !.discount = 0,
                                   !.promo_code = None]
            ELSE [cart EXCEPT !.total = total, !.discount = 0]
    IN  [cs1 EXCEPT ![user_id] = cart2]

\* update_cart_total on the carts table cs
update_cart_total(cs, user_id) ==
    LET cs1 == get_cart(cs, user_id)
        cart == cs1[user_id]
        total == SumItems(cart.items, DOMAIN cart.items)
        cart2 ==
            IF cart.promo_code /= None
            THEN IF PromoUsable(cart.promo_code)
                 THEN [cart EXCEPT !.total = total,
                                   !.discount = calculate_discount(
                                       total, promo_codes[cart.promo_code])]
                 ELSE [cart EXCEPT !.total = total, !.discount = 0,
                                   !.promo_code = None]
            ELSE [cart EXCEPT !.total = total, !.discount = 0]
    IN  [cs1 EXCEPT ![user_id] = cart2]

\* ---------------------------------------------------------- cart operations
Step == /\ nops < MaxOps
        /\ nops' = nops + 1

\* save_data: the whole store written to db_file
save_data == file' = store'

add_to_cart(user_id, item_id, quantity) ==
    /\ Step
    /\ LET cs1 == get_cart(carts, user_id)
           items == cs1[user_id].items
           q == IF item_id \in DOMAIN items THEN items[item_id] + quantity
                ELSE quantity
       IN  carts' = update_cart_total(
               [cs1 EXCEPT ![user_id].items = Put(items, item_id, q)], user_id)
    /\ resp' = [Response("add_to_cart", user_id, item_id, "ok")
                   EXCEPT !.quantity = quantity]
    /\ UNCHANGED << menu, users, orders, reservations, reviews, promo_codes,
                    order_counter, reservation_counter, review_counter,
                    settings, now >>
    /\ save_data

AddedCarts_sets_quantity(cs, user_id, item_id, quantity) ==
    LET cs1 == get_cart(cs, user_id)
        items == cs1[user_id].items
    IN  update_cart_total(
            [cs1 EXCEPT ![user_id].items = Put(items, item_id, quantity)],
            user_id)

\* the carts table after db.add_to_cart(user_id, item_id, quantity)
AddedCarts(cs, user_id, item_id, quantity) ==
    LET cs1 == get_cart(cs, user_id)
        items == cs1[user_id].items
        q == IF item_id \in DOMAIN items THEN items[item_id] + quantity
             ELSE quantity
    IN  update_cart_total(
            [cs1 EXCEPT ![user_id].items = Put(items, item_id, q)], user_id)

\* mutant: only a negative quantity removes the entry
SetQuantity_negative_only(items, item_id, quantity) ==
    IF quantity < 0 THEN Del(items, item_id) ELSE Put(items, item_id, quantity)

\* the item mapping update_cart_item_quantity leaves
SetQuantity(items, item_id, quantity) ==
    IF quantity <= 0 THEN Del(items, item_id) ELSE Put(items, item_id, quantity)

update_cart_item_quantity(user_id, item_id, quantity) ==
    /\ Step
    /\ LET cs1 == get_cart(carts, user_id)
           items == cs1[user_id].items
       IN  carts' = update_cart_total(
               [cs1 EXCEPT ![user_id].items = SetQuantity(items, item_id, quantity)],
               user_id)
    /\ resp' = [Response("update_cart_item_quantity", user_id, item_id, "ok")
                   EXCEPT !.quantity = quantity]
    /\ UNCHANGED << menu, users, orders, reservations, reviews, promo_codes,
                    order_counter, reservation_counter, review_counter,
                    settings, now >>
    /\ save_data

remove_from_cart(user_id, item_id) ==
    /\ Step
    /\ LET cs1 == get_cart(carts, user_id)
           items == cs1[user_id].items
       IN  carts' = update_cart_total(
               [cs1 EXCEPT ![user_id].items = SetQuantity(items, item_id, 0)],
               user_id)
    /\ resp' = Response("remove_from_cart", user_id, item_id, "ok")
    /\ UNCHANGED << menu, users, orders, reservations, reviews, promo_codes,
                    order_counter, reservation_counter, review_counter,
                    settings, now >>
    /\ save_data

\* clear_cart on the carts table cs
ClearedCarts(cs, user_id) ==
    IF user_id \in DOMAIN cs THEN [cs EXCEPT ![user_id] = EmptyCart] ELSE cs

clear_cart(user_id) ==
    /\ Step
    /\ carts' = ClearedCarts(carts, user_id)
    /\ resp' = Response("clear_cart", user_id, 0, "ok")
    /\ UNCHANGED << menu, users, orders, reservations, reviews, promo_codes,
                    order_counter, reservation_counter, review_counter,
                    settings, now >>
    /\ IF user_id \in DOMAIN carts THEN save_data ELSE UNCHANGED file

apply_promo_code_counts_use(user_id, promo_code) ==
    /\ Step
    /\ IF \/ ~PromoUsable(promo_code)
          \/ promo_codes[promo_code].used_count >= 1
       THEN /\ carts' = carts
            /\ promo_codes' = promo_codes
            /\ resp' = [Response("apply_promo_code", user_id, 0, "False")
                           EXCEPT !.code = promo_code]
       ELSE /\ LET cs1 == get_cart(carts, user_id)
               IN  carts' = update_cart_total(
                       [cs1 EXCEPT ![user_id].promo_code = promo_code], user_id)
            /\ promo_codes' = [promo_codes EXCEPT ![promo_code].used_count = @ + 1]
            /\ resp' = [Response("apply_promo_code", user_id, 0, "True")
                           EXCEPT !.code = promo_code]
    /\ UNCHANGED << menu, users, orders, reservations, reviews,
                    order_counter, reservation_counter, review_counter,
                    settings, now >>
    /\ IF resp'.result = "True" THEN save_data ELSE UNCHANGED file

apply_promo_code(user_id, promo_code) ==
    /\ Step
    /\ IF ~PromoUsable(promo_code)
       THEN /\ carts' = carts
            /\ resp' = [Response("apply_promo_code", user_id, 0, "False")
                           EXCEPT !.code = promo_code]
       ELSE /\ LET cs1 == get_cart(carts, user_id)
               IN  carts' = update_cart_total(
                       [cs1 EXCEPT ![user_id].promo_code = promo_code], user_id)
            /\ resp' = [Response("apply_promo_code", user_id, 0, "True")
                           EXCEPT !.code = promo_code]
    /\ UNCHANGED << menu, users, orders, reservations, reviews, promo_codes,
                    order_counter, reservation_counter, review_counter,
                    settings, now >>
    /\ IF resp'.result = "True" THEN save_data ELSE UNCHANGED file

\* show_cart reads the cart through get_cart, which creates a missing record
show_cart(user_id) ==
    /\ Step
    /\ carts' = get_cart(carts, user_id)
    /\ resp' = Response("show_cart", user_id, 0, "ok")
    /\ UNCHANGED << menu, users, orders, reservations, reviews, promo_codes,
                    order_counter, reservation_counter, review_counter,
                    settings, now >>
    /\ UNCHANGED file

\* --------------------------------------------------------- order operations
\* mutant: the order's total stored net of the discount
NewOrder_net_total(order_id, user_id, cart) ==
    [order_id |-> order_id, user_id |-> user_id, items |-> cart.items,
     total |-> cart.total - cart.discount, discount |-> cart.discount,
     delivery_fee |-> settings.delivery_fee, promo_code |-> cart.promo_code,
     status |-> ORDER_STATUS_PENDING, created_at |-> now, updated_at |-> now]

NewOrder(order_id, user_id, cart) ==
    [order_id |-> order_id, user_id |-> user_id, items |-> cart.items,
     total |-> cart.total, discount |-> cart.discount,
     delivery_fee |-> settings.delivery_fee, promo_code |-> cart.promo_code,
     status |-> ORDER_STATUS_PENDING, created_at |-> now, updated_at |-> now]

\* mutant: ten points per dollar
points_earned_ten_per_dollar(total) == total \div 10

\* int(cart["total"] * 1), the total being in cents
points_earned(total) == total \div 100

\* mutant: the emptiness check left out
CartIsEmpty_never(cart) == FALSE

\* not cart.get("items")
CartIsEmpty(cart) == DOMAIN cart.items = {}

create_order(user_id) ==
    /\ Step
    /\ LET cs1 == get_cart(carts, user_id)
           cart == cs1[user_id]
           us1 == get_user(users, user_id)
       IN  IF CartIsEmpty(cart)
           THEN /\ carts' = cs1
                /\ resp' = Response("create_order", user_id, 0, "ValueError")
                /\ UNCHANGED << users, orders, order_counter >>
           ELSE /\ order_counter <= MaxOrders
                /\ orders' = Put(orders, order_counter,
                                 NewOrder(order_counter, user_id, cart))
                /\ order_counter' = order_counter + 1
                /\ users' = [us1 EXCEPT
                       ![user_id].total_orders = @ + 1,
                       ![user_id].loyalty_points = @ + points_earned(cart.total)]
                /\ carts' = ClearedCarts(cs1, user_id)
                /\ resp' = Response("create_order", user_id, order_counter, "ok")
    /\ UNCHANGED << menu, reservations, reviews, promo_codes,
                    reservation_counter, review_counter, settings, now >>
    /\ IF resp'.result = "ok" THEN save_data ELSE UNCHANGED file

\* mutant: a status update also re-stamps the delivery fee
StatusSet_restamps_fee(os, order_id, status) ==
    IF order_id \in DOMAIN os
    THEN [os EXCEPT ![order_id].status = status, ![order_id].updated_at = now,
                    ![order_id].delivery_fee = settings.delivery_fee]
    ELSE os

\* ------------------------------------------------------------ callback data
\* callback.data.split("_"): a part is a word or the decimal text of an id;
\* int() of a part succeeds for the latter only.
Word(s) == [isint |-> FALSE, n |-> 0, s |-> s]
Num(n) == [isint |-> TRUE, n |-> n, s |-> ""]

\* the parts of the callback data the keyboards build
order_data(order_id) == << Word("order"), Num(order_id) >>
cancel_order_data(order_id) == << Word("cancel"), Word("order"), Num(order_id) >>
reservation_data(res_id) == << Word("reservation"), Num(res_id) >>
cancel_reservation_data(res_id) ==
    << Word("cancel"), Word("reservation"), Num(res_id) >>
admin_update_status_data(order_id, status) ==
    << Word("admin"), Word("update"), Word("status"), Num(order_id),
       Word(status) >>

\* int(parts[index]) raises no error (index counted from 0)
IntAt(parts, index) == index + 1 <= Len(parts) /\ parts[index + 1].isint

\* How show_order_details ends for callback data with these parts: it reads
\* the id at index 1.
order_details_ending(parts, caller, os) ==
    IF ~IntAt(parts, 1) THEN "error_alert"
    ELSE IF parts[2].n \in DOMAIN os /\ os[parts[2].n].user_id = caller
    THEN "detail_view"
    ELSE "not_found"

\* How show_reservation_details ends: it reads the id at index 1.
reservation_details_ending(parts, caller, rs) ==
    IF ~IntAt(parts, 1) THEN "error_alert"
    ELSE IF parts[2].n \in DOMAIN rs /\ rs[parts[2].n].user_id = caller
    THEN "detail_view"
    ELSE "not_found"

\* How show_admin_order_details ends for the admin: it reads the id at index 2.
admin_order_details_ending(parts, os) ==
    IF ~IntAt(parts, 2) THEN "error_alert"
    ELSE IF parts[3].n \in DOMAIN os THEN "detail_view"
    ELSE "not_found"

StatusSet_final_kept(os, order_id, status) ==
    IF order_id \in DOMAIN os
       /\ os[order_id].status \notin {ORDER_STATUS_CANCELLED, ORDER_STATUS_DELIVERED}
    THEN [os EXCEPT ![order_id].status = status, ![order_id].updated_at = now]
    ELSE os

\* update_order_status on the orders table
StatusSet(os, order_id, status) ==
    IF order_id \in DOMAIN os
    THEN [os EXCEPT ![order_id].status = status, ![order_id].updated_at = now]
    ELSE os

update_order_status(order_id, status) ==
    /\ Step
    /\ orders' = StatusSet(orders, order_id, status)
    /\ resp' = Response("update_order_status", 0, order_id, "ok")
    /\ UNCHANGED << menu, users, carts, reservations, reviews, promo_codes,
                    order_counter, reservation_counter, review_counter,
                    settings, now >>
    /\ IF order_id \in DOMAIN orders THEN save_data ELSE UNCHANGED file

\* DatabaseHelper.cancel_order
db_cancel_order(order_id) ==
    /\ Step
    /\ IF order_id \in DOMAIN orders
          /\ orders[order_id].status = ORDER_STATUS_PENDING
       THEN /\ orders' = StatusSet(orders, order_id, ORDER_STATUS_CANCELLED)
            /\ resp' = Response("db_cancel_order", 0, order_id, "True")
       ELSE /\ orders' = orders
            /\ resp' = Response("db_cancel_order", 0, order_id, "False")
    /\ UNCHANGED << menu, users, carts, reservations, reviews, promo_codes,
                    order_counter, reservation_counter, review_counter,
                    settings, now >>
    /\ IF resp'.result = "True" THEN save_data ELSE UNCHANGED file

\* mutant: the window closed already at the limit
WindowExpired_at_limit(created_at) == now - created_at >= time_limit

\* datetime.now() - created_at > time_limit
WindowExpired(created_at) == now - created_at > time_limit

cancel_order_any_status(caller, order_id) ==
    /\ Step
    /\ IF order_id \notin DOMAIN orders
       THEN /\ orders' = orders
            /\ resp' = Response("cancel_order", caller, order_id, "not_found")
       ELSE IF orders[order_id].user_id /= caller
       THEN /\ orders' = orders
            /\ resp' = Response("cancel_order", caller, order_id, "not_found")
       ELSE IF WindowExpired(orders[order_id].created_at)
       THEN /\ orders' = orders
            /\ resp' = Response("cancel_order", caller, order_id, "expired")
       ELSE /\ orders' = StatusSet(orders, order_id, ORDER_STATUS_CANCELLED)
            /\ resp' = [Response("cancel_order", caller, order_id, "cancelled")
                           EXCEPT !.ending = order_details_ending(
                               cancel_order_data(order_id), caller, orders)]
    /\ UNCHANGED << menu, users, carts, reservations, reviews, promo_codes,
                    order_counter, reservation_counter, review_counter,
                    settings, now >>
    /\ IF resp'.result = "cancelled" THEN save_data ELSE UNCHANGED file

\* the cancel_order callback handler of handlers/orders.py
cancel_order(caller, order_id) ==
    /\ Step
    /\ IF order_id \notin DOMAIN orders
       THEN /\ orders' = orders
            /\ resp' = Response("cancel_order", caller, order_id, "not_found")
       ELSE IF orders[order_id].user_id /= caller
       THEN /\ orders' = orders
            /\ resp' = Response("cancel_order", caller, order_id, "not_found")
       ELSE IF orders[order_id].status /= ORDER_STATUS_PENDING
       THEN /\ orders' = orders
            /\ resp' = Response("cancel_order", caller, order_id, "not_pending")
       ELSE IF WindowExpired(orders[order_id].created_at)
       THEN /\ orders' = orders
            /\ resp' = Response("cancel_order", caller, order_id, "expired")
       ELSE /\ orders' = StatusSet(orders, order_id, ORDER_STATUS_CANCELLED)
            /\ resp' = [Response("cancel_order", caller, order_id, "cancelled")
                           EXCEPT !.ending = order_details_ending(
                               cancel_order_data(order_id), caller, orders)]
    /\ UNCHANGED << menu, users, carts, reservations, reviews, promo_codes,
                    order_counter, reservation_counter, review_counter,
                    settings, now >>
    /\ IF resp'.result = "cancelled" THEN save_data ELSE UNCHANGED file

\* --------------------------------------------- reservations and reviews
\* mutant: the reservation id taken from the order counter
create_reservation_order_counter(user_id) ==
    /\ Step
    /\ reservation_counter <= MaxReservations
    /\ order_counter <= MaxOrders
    /\ reservations' = Put(reservations, order_counter,
           [reservation_id |-> order_counter, user_id |-> user_id,
            status |-> "pending", created_at |-> now, updated_at |-> now])
    /\ order_counter' = order_counter + 1
    /\ resp' = Response("create_reservation", user_id, order_counter, "ok")
    /\ UNCHANGED << menu, users, carts, orders, reviews, promo_codes,
                    reservation_counter, review_counter, settings, now >>
    /\ save_data

create_reservation(user_id) ==
    /\ Step
    /\ reservation_counter <= MaxReservations
    /\ reservations' = Put(reservations, reservation_counter,
           [reservation_id |-> reservation_counter, user_id |-> user_id,
            status |-> "pending", created_at |-> now, updated_at |-> now])
    /\ reservation_counter' = reservation_counter + 1
    /\ resp' = Response("create_reservation", user_id, reservation_counter, "ok")
    /\ UNCHANGED << menu, users, carts, orders, reviews, promo_codes,
                    order_counter, review_counter, settings, now >>
    /\ save_data

create_review(user_id, rating, order_id) ==
    /\ Step
    /\ review_counter <= MaxReviews
    /\ reviews' = Put(reviews, review_counter,
           [review_id |-> review_counter, user_id |-> user_id,
            rating |-> rating, order_id |-> order_id])
    /\ review_counter' = review_counter + 1
    /\ resp' = Response("create_review", user_id, review_counter, "ok")
    /\ UNCHANGED << menu, users, carts, orders, reservations, promo_codes,
                    order_counter, reservation_counter, settings, now >>
    /\ save_data

\* ------------------------------------------------------ the review callbacks
MIN_RATING == 1
MAX_RATING == 5

\* validate_rating(rating) raises no ValidationError
validate_rating(rating) == rating >= MIN_RATING /\ rating <= MAX_RATING

\* db.get_reviews(order_id=order_id) filtered by the caller
ReviewsBy(user_id, order_id) ==
    {r \in DOMAIN reviews : /\ reviews[r].user_id = user_id
                            /\ reviews[r].order_id = order_id}

\* the review_order_<id> callback: the prompt with the rating buttons
review_order_prompt(caller, order_id) ==
    /\ Step
    /\ resp' = Response("review_order_prompt", caller, order_id,
           IF order_id \notin DOMAIN orders THEN "not_found"
           ELSE IF orders[order_id].user_id /= caller THEN "not_found"
           ELSE IF ReviewsBy(caller, order_id) /= {} THEN "already_reviewed"
           ELSE "prompt")
    /\ UNCHANGED << store, now, file >>

\* the rate_order_<id>_<rating> callback
submit_order_rating(caller, order_id, rating) ==
    /\ Step
    /\ IF ~validate_rating(rating)
       THEN /\ UNCHANGED << reviews, review_counter >>
            /\ resp' = Response("submit_order_rating", caller, order_id, "error")
       ELSE /\ review_counter <= MaxReviews
            /\ reviews' = Put(reviews, review_counter,
                   [review_id |-> review_counter, user_id |-> caller,
                    rating |-> rating, order_id |-> order_id])
            /\ review_counter' = review_counter + 1
            /\ resp' = Response("submit_order_rating", caller, order_id, "ok")
    /\ UNCHANGED << menu, users, carts, orders, reservations, promo_codes,
                    order_counter, reservation_counter, settings, now >>
    /\ IF resp'.result = "ok" THEN save_data ELSE UNCHANGED file

\* -------------------------------------------- the cart and menu callbacks
\* mutant: no upper limit
validate_quantity_no_upper(quantity) == quantity >= 1

\* validate_quantity(quantity) raises no ValidationError
validate_quantity(quantity) == quantity >= 1 /\ quantity <= QuantityLimit

\* cart["items"].get(str(item_id), 0)
QuantityOf(cart, item_id) ==
    IF item_id \in DOMAIN cart.items THEN cart.items[item_id] ELSE 0

\* the add_to_cart callback handler of handlers/menu.py (add_<id>)
add_to_cart_handler(caller, item_id) ==
    /\ Step
    /\ IF ~get_item_by_id(item_id)
       THEN /\ carts' = carts
            /\ resp' = Response("add_to_cart_handler", caller, item_id, "not_found")
       ELSE /\ carts' = AddedCarts(carts, caller, item_id, 1)
            /\ resp' = Response("add_to_cart_handler", caller, item_id, "ok")
    /\ UNCHANGED << menu, users, orders, reservations, reviews, promo_codes,
                    order_counter, reservation_counter, review_counter,
                    settings, now >>
    /\ IF resp'.result = "ok" THEN save_data ELSE UNCHANGED file

\* the increase_quantity callback handler (cart_inc_<id>)
increase_quantity(caller, item_id) ==
    /\ Step
    /\ LET cs1 == get_cart(carts, caller)
           new_quantity == QuantityOf(cs1[caller], item_id) + 1
       IN  IF ~validate_quantity(new_quantity)
           THEN /\ carts' = cs1
                /\ resp' = [Response("increase_quantity", caller, item_id,
                                     "validation_error")
                               EXCEPT !.quantity = new_quantity]
           ELSE /\ carts' = update_cart_total(
                       [cs1 EXCEPT ![caller].items =
                           SetQuantity(@, item_id, new_quantity)], caller)
                /\ resp' = [Response("increase_quantity", caller, item_id, "ok")
                               EXCEPT !.quantity = new_quantity]
    /\ UNCHANGED << menu, users, orders, reservations, reviews, promo_codes,
                    order_counter, reservation_counter, review_counter,
                    settings, now >>
    /\ IF resp'.result = "ok" THEN save_data ELSE UNCHANGED file

\* the decrease_quantity callback handler (cart_dec_<id>)
decrease_quantity(caller, item_id) ==
    /\ Step
    /\ LET cs1 == get_cart(carts, caller)
           current_quantity == QuantityOf(cs1[caller], item_id)
           new_quantity == IF current_quantity <= 1 THEN 0
                           ELSE current_quantity - 1
       IN  /\ carts' = update_cart_total(
                  [cs1 EXCEPT ![caller].items =
                      SetQuantity(@, item_id, new_quantity)], caller)
           /\ resp' = [Response("decrease_quantity", caller, item_id, "ok")
                          EXCEPT !.quantity = new_quantity]
    /\ UNCHANGED << menu, users, orders, reservations, reviews, promo_codes,
                    order_counter, reservation_counter, review_counter,
                    settings, now >>
    /\ save_data

\* ------------------------------------------------------------ the checkout
\* mutant: a cart exactly at the threshold refused
BelowMinOrder_at_threshold(cart) ==
    cart.total - cart.discount <= settings.min_order

\* subtotal < min_order, the subtotal being the total minus the discount
BelowMinOrder(cart) == cart.total - cart.discount < settings.min_order

\* the process_checkout callback handler of handlers/payment.py
checkout(caller) ==
    /\ Step
    /\ LET cs1 == get_cart(carts, caller)
           cart == cs1[caller]
           us1 == get_user(users, caller)
       IN  IF CartIsEmpty(cart)
           THEN /\ carts' = cs1
                /\ resp' = Response("checkout", caller, 0, "empty")
                /\ UNCHANGED << users, orders, order_counter >>
           ELSE IF BelowMinOrder(cart)
           THEN /\ carts' = cs1
                /\ resp' = Response("checkout", caller, 0, "below_min_order")
                /\ UNCHANGED << users, orders, order_counter >>
           ELSE /\ order_counter <= MaxOrders
                /\ orders' = Put(orders, order_counter,
                                 NewOrder(order_counter, caller, cart))
                /\ order_counter' = order_counter + 1
                /\ users' = [us1 EXCEPT
                       ![caller].total_orders = @ + 1,
                       ![caller].loyalty_points = @ + points_earned(cart.total)]
                /\ carts' = ClearedCarts(cs1, caller)
                /\ resp' = Response("checkout", caller, order_counter, "ok")
    /\ UNCHANGED << menu, reservations, reviews, promo_codes,
                    reservation_counter, review_counter, settings, now >>
    /\ IF resp'.result = "ok" THEN save_data ELSE UNCHANGED file

\* ------------------------------------------- the user's orders, reservations
\* mutant: the owner not compared with the caller
Owned_exists_only(table, id, caller) == id \in DOMAIN table

\* not (not record or record.get("user_id") != callback.from_user.id)
Owned(table, id, caller) == id \in DOMAIN table /\ table[id].user_id = caller

\* the show_order_details callback handler (order_<id>)
show_order_details(caller, order_id) ==
    /\ Step
    /\ resp' = [Response("show_order_details", caller, order_id,
                         IF Owned(orders, order_id, caller) THEN "ok"
                         ELSE "not_found")
                   EXCEPT !.ending = order_details_ending(
                       order_data(order_id), caller, orders)]
    /\ UNCHANGED << store, now >>
    /\ UNCHANGED file

\* the items of an order the reorder handler adds: in the menu and available
Reorderable(items) ==
    { i \in DOMAIN items : get_item_by_id(i) /\ menu[i].available }

\* the loop of the reorder handler over the order's items
RECURSIVE AddAll(_, _, _, _)
AddAll(cs, user_id, items, ids) ==
    IF ids = {} THEN cs
    ELSE LET i == CHOOSE x \in ids : TRUE
         IN  AddAll(AddedCarts(cs, user_id, i, items[i]), user_id, items,
                    ids \ {i})

\* the reorder callback handler (reorder_<id>)
reorder(caller, order_id) ==
    /\ Step
    /\ IF ~Owned(orders, order_id, caller)
       THEN /\ carts' = carts
            /\ resp' = Response("reorder", caller, order_id, "not_found")
       ELSE IF Reorderable(orders[order_id].items) = {}
       THEN /\ carts' = carts
            /\ resp' = Response("reorder", caller, order_id, "unavailable")
       ELSE /\ carts' = AddAll(carts, caller, orders[order_id].items,
                               Reorderable(orders[order_id].items))
            /\ resp' = Response("reorder", caller, order_id, "ok")
    /\ UNCHANGED << menu, users, orders, reservations, reviews, promo_codes,
                    order_counter, reservation_counter, review_counter,
                    settings, now >>
    /\ IF resp'.result = "ok" THEN save_data ELSE UNCHANGED file

\* the show_reservation_details callback handler (reservation_<id>)
show_reservation_details(caller, res_id) ==
    /\ Step
    /\ resp' = [Response("show_reservation_details", caller, res_id,
                         IF Owned(reservations, res_id, caller) THEN "ok"
                         ELSE "not_found")
                   EXCEPT !.ending = reservation_details_ending(
                       reservation_data(res_id), caller, reservations)]
    /\ UNCHANGED << store, now >>
    /\ UNCHANGED file

\* the cancel_reservation callback handler (cancel_reservation_<id>)
cancel_reservation(caller, res_id) ==
    /\ Step
    /\ IF ~Owned(reservations, res_id, caller)
       THEN /\ reservations' = reservations
            /\ resp' = Response("cancel_reservation", caller, res_id, "not_found")
       ELSE /\ reservations' = [reservations EXCEPT
                                   ![res_id].status = "cancelled",
                                   ![res_id].updated_at = now]
            /\ resp' = [Response("cancel_reservation", caller, res_id, "cancelled")
                           EXCEPT !.ending = reservation_details_ending(
                               cancel_reservation_data(res_id), caller,
                               reservations)]
    /\ UNCHANGED << menu, users, carts, orders, reviews, promo_codes,
                    order_counter, reservation_counter, review_counter,
                    settings, now >>
    /\ IF resp'.result = "cancelled" THEN save_data ELSE UNCHANGED file

\* ---------------------------------------------------------------- addresses
\* the entries that hold the dict obj
EntriesOf(us, obj) ==
    { e \in UNION { { us[u].addresses[k] : k \in DOMAIN us[u].addresses } :
                    u \in DOMAIN us } : e.obj = obj }

RECURSIVE MaxId(_, _)
MaxId(a, ks) ==
    IF ks = {} THEN 0
    ELSE LET k == CHOOSE x \in ks : TRUE
             m == MaxId(a, ks \ {k})
         IN  IF a[k].id > m THEN a[k].id ELSE m

\* add_user_address(user_id, address): address is the dict obj, whose
\* "is_default" entry is is_default when the dict is not in the store yet.
\* MapAddresses rewrites the entries of every user's list by F: a write to a
\* dict shows in every list that holds the dict.
add_user_address(user_id, obj, is_default) ==
    /\ Step
    /\ LET MapAddresses(us, F(_)) ==
               [u \in DOMAIN us |->
                   LET a == us[u].addresses
                   IN  [us[u] EXCEPT
                           !.addresses = [k \in DOMAIN a |-> F(a[k])]]]
           us1 == get_user(users, user_id)
           list == us1[user_id].addresses
           known == EntriesOf(us1, obj)
           flag == IF known = {} THEN is_default
                   ELSE (CHOOSE e \in known : TRUE).is_default
           address_id == MaxId(list, DOMAIN list) + 1
           mine == { list[k].obj : k \in DOMAIN list }
           makeDefault == list = << >> \/ flag
           SetId(e) == IF e.obj = obj THEN [e EXCEPT !.id = address_id] ELSE e
           Unflag(e) == IF e.obj \in mine THEN [e EXCEPT !.is_default = FALSE]
                        ELSE e
           Flag(e) == IF e.obj = obj THEN [e EXCEPT !.is_default = TRUE] ELSE e
           us2 == MapAddresses(us1, SetId)
           us3 == IF makeDefault
                  THEN MapAddresses(MapAddresses(us2, Unflag), Flag)
                  ELSE us2
           address == [obj |-> obj, id |-> address_id,
                       is_default |-> IF makeDefault THEN TRUE ELSE flag]
       IN  /\ Len(list) < MaxAddresses
           /\ known /= {} => is_default = flag
           /\ users' = [us3 EXCEPT ![user_id].addresses = Append(@, address)]
           /\ resp' = Response("add_user_address", user_id, address_id, "ok")
    /\ UNCHANGED << menu, carts, orders, reservations, reviews, promo_codes,
                    order_counter, reservation_counter, review_counter,
                    settings, now >>
    /\ save_data

\* ------------------------------------------------ promo codes and settings
create_promo_code(code, discount_type, discount_value, min_order, max_uses) ==
    /\ Step
    /\ IF code \in DOMAIN promo_codes
       THEN /\ promo_codes' = promo_codes
            /\ resp' = Response("create_promo_code", 0, 0, "False")
       ELSE /\ promo_codes' = Put(promo_codes, code,
                   [discount_type |-> discount_type,
                    discount_value |-> discount_value, min_order |-> min_order,
                    max_uses |-> max_uses, used_count |-> 0,
                    is_active |-> TRUE])
            /\ resp' = Response("create_promo_code", 0, 0, "True")
    /\ UNCHANGED << menu, users, carts, orders, reservations, reviews,
                    order_counter, reservation_counter, review_counter,
                    settings, now >>
    /\ IF resp'.result = "True" THEN save_data ELSE UNCHANGED file

update_settings(delivery_fee) ==
    /\ Step
    /\ settings' = [settings EXCEPT !.delivery_fee = delivery_fee]
    /\ resp' = Response("update_settings", 0, 0, "ok")
    /\ UNCHANGED << menu, users, carts, orders, reservations, reviews,
                    promo_codes, order_counter, reservation_counter,
                    review_counter, now >>
    /\ save_data

\* ------------------------------------------------------------ admin, clock
\* mutant: every caller taken for the admin
is_admin_anyone(user_id) == TRUE

is_admin(user_id) == user_id = admin_id

toggle_item_availability(caller, item_id) ==
    /\ Step
    /\ IF ~is_admin(caller)
       THEN /\ menu' = menu
            /\ resp' = Response("toggle_item_availability", caller, item_id, "denied")
       ELSE IF ~get_item_by_id(item_id)
       THEN /\ menu' = menu
            /\ resp' = Response("toggle_item_availability", caller, item_id, "not_found")
       ELSE /\ menu' = [menu EXCEPT ![item_id].available = ~@]
            /\ resp' = Response("toggle_item_availability", caller, item_id, "ok")
    /\ UNCHANGED << users, carts, orders, reservations, reviews, promo_codes,
                    order_counter, reservation_counter, review_counter,
                    settings, now >>
    /\ IF resp'.result = "ok" THEN save_data ELSE UNCHANGED file

\* The update_order_status callback handler of handlers/admin/orders.py, on the
\* data admin_update_status_<order_id>_<new_status>.  The data is well formed
\* when it has the two parts and the first is a number; new_status is whatever
\* text the second part holds.
admin_update_order_status(caller, well_formed, order_id, new_status) ==
    /\ Step
    /\ IF ~is_admin(caller)
       THEN /\ orders' = orders
            /\ resp' = [Response("admin_update_status", caller, order_id, "denied")
                           EXCEPT !.status = new_status]
       ELSE IF ~well_formed
       THEN /\ orders' = orders
            /\ resp' = [Response("admin_update_status", caller, order_id, "error")
                           EXCEPT !.status = new_status,
                                  !.ending = "error_alert"]
       ELSE /\ orders' = StatusSet(orders, order_id, new_status)
            /\ resp' = [Response("admin_update_status", caller, order_id, "updated")
                           EXCEPT !.status = new_status,
                                  !.ending = admin_order_details_ending(
                                      admin_update_status_data(order_id, new_status),
                                      orders)]
    /\ UNCHANGED << menu, users, carts, reservations, reviews, promo_codes,
                    order_counter, reservation_counter, review_counter,
                    settings, now >>
    /\ IF resp'.result = "updated" /\ order_id \in DOMAIN orders
       THEN save_data ELSE UNCHANGED file

\* The admin operations that only read the store: the /admin command and the
\* callbacks admin_panel, admin_stats, admin_orders, admin_order_<id>,
\* admin_menu and admin_category_<c>.
admin_view(caller, view) ==
    /\ Step
    /\ resp' = Response(view, caller, 0, IF is_admin(caller) THEN "ok" ELSE "denied")
    /\ UNCHANGED << store, now >>
    /\ UNCHANGED file

\* time passes
Tick(d) ==
    /\ Step
    /\ now + d <= MaxTime
    /\ now' = now + d
    /\ resp' = Response("tick", 0, d, "ok")
    /\ UNCHANGED store
    /\ UNCHANGED file

\* ------------------------------------------------------------------- inputs
\* The whole system: every operation, tried by two users and the admin on one
\* menu item, one creatable promo code and the switched-off code.
Callers == {1, admin_id}
OrderIds == 1 .. MaxOrders
TickInputs == {1, time_limit, time_limit + 1}

Next ==
    \/ \E u \in Users : add_to_cart(u, 4, 1) /\ UNCHANGED tasks
    \/ \E u \in Users, q \in {-1, MaxQty} : update_cart_item_quantity(u, 4, q)
           /\ UNCHANGED tasks
    \/ \E u \in Users : remove_from_cart(u, 4) /\ UNCHANGED tasks
    \/ \E u \in Users : clear_cart(u) /\ UNCHANGED tasks
    \/ \E u \in Users, c \in {"PCT150", "OLD"} : apply_promo_code(u, c)
           /\ UNCHANGED tasks
    \/ \E u \in Users : show_cart(u) /\ UNCHANGED tasks
    \/ \E u \in Users : create_order(u) /\ UNCHANGED tasks
    \/ \E o \in OrderIds, st \in ORDER_STATUSES : update_order_status(o, st)
           /\ UNCHANGED tasks
    \/ \E o \in OrderIds : db_cancel_order(o) /\ UNCHANGED tasks
    \/ \E u \in Users, o \in OrderIds : cancel_order(u, o) /\ UNCHANGED tasks
    \/ \E u \in Users : create_reservation(u) /\ UNCHANGED tasks
    \/ \E u \in Users : create_review(u, 5, 1) /\ UNCHANGED tasks
    \/ create_promo_code("PCT150", "percentage", 150, 0, None)
           /\ UNCHANGED tasks
    \/ update_settings(400) /\ UNCHANGED tasks
    \/ \E c \in Callers : toggle_item_availability(c, 4) /\ UNCHANGED tasks
    \/ \E d \in TickInputs : Tick(d) /\ UNCHANGED tasks

Spec == Init /\ [][Next]_vars

\* The cart engine: every operation that writes a cart, the menu or the promo
\* table, tried on two menu items, an id that is in no menu category and both
\* kinds of promo code.
ItemIds == {4, 7, 99}
Codes == {"PCT150", "FIX20", "OLD"}
\* quantity 0 is what remove_from_cart passes
QuantityInputs == {-1, 1, MaxQty}
PromoInputs ==
    { << "PCT150", "percentage", 150, 0 >>, << "FIX20", "fixed", 2000, 0 >> }

NextCart ==
    \/ \E u \in Users, i \in ItemIds : add_to_cart(u, i, 1) /\ UNCHANGED tasks
    \/ \E u \in Users, i \in ItemIds, q \in QuantityInputs :
           update_cart_item_quantity(u, i, q) /\ UNCHANGED tasks
    \/ \E u \in Users, i \in ItemIds : remove_from_cart(u, i) /\ UNCHANGED tasks
    \/ \E u \in Users : clear_cart(u) /\ UNCHANGED tasks
    \/ \E u \in Users, c \in Codes : apply_promo_code(u, c) /\ UNCHANGED tasks
    \/ \E u \in Users : show_cart(u) /\ UNCHANGED tasks
    \/ \E u \in Users : create_order(u) /\ UNCHANGED tasks
    \/ \E p \in PromoInputs : create_promo_code(p[1], p[2], p[3], p[4], None)
           /\ UNCHANGED tasks
    \/ \E c \in Callers : toggle_item_availability(c, 4) /\ UNCHANGED tasks

SpecCart == Init /\ [][NextCart]_vars

\* The quantities: the store constructed from a persistence file in which user
\* 1 has put item 4 in the cart one short of the limit, and the callbacks with
\* which a user changes a cart.
QuantityCarts ==
    1 :> [items |-> (4 :> (QuantityLimit - 1)),
          total |-> 1000 * (QuantityLimit - 1), discount |-> 0,
          promo_code |-> None]

InitQuantity ==
    /\ menu = DefaultMenu
    /\ users = EmptyMap
    /\ carts = QuantityCarts
    /\ orders = EmptyMap
    /\ reservations = EmptyMap
    /\ reviews = EmptyMap
    /\ promo_codes = LoadedPromoCodes
    /\ order_counter = 1
    /\ reservation_counter = 1
    /\ review_counter = 1
    /\ settings = DefaultSettings
    /\ now = 0
    /\ resp = Response("init", 0, 0, "ok")
    /\ nops = 0
    /\ file = store
    /\ tasks = NoTasks

NextQuantity ==
    \/ \E u \in Users, i \in {4, 99} : add_to_cart_handler(u, i)
           /\ UNCHANGED tasks
    \/ \E u \in Users, i \in {4, 7} : increase_quantity(u, i) /\ UNCHANGED tasks
    \/ \E u \in Users, i \in {4, 7} : decrease_quantity(u, i) /\ UNCHANGED tasks
    \/ \E u \in Users : remove_from_cart(u, 4) /\ UNCHANGED tasks
    \/ \E u \in Users : clear_cart(u) /\ UNCHANGED tasks
    \/ \E u \in Users : checkout(u) /\ UNCHANGED tasks
    \/ \E u \in Users, o \in OrderIds : reorder(u, o) /\ UNCHANGED tasks

SpecQuantity == InitQuantity /\ [][NextQuantity]_vars

\* The checkout: the store constructed from a persistence file whose promo
\* table holds, next to the switched-off code, an active code with a
\* minimum-order threshold of its own (5.00 off orders of 30.00 and more).
CheckoutPromoCodes ==
    LoadedPromoCodes @@
    ( "MIN30" :> [discount_type |-> "fixed", discount_value |-> 500,
                  min_order |-> 3000, max_uses |-> None, used_count |-> 0,
                  is_active |-> TRUE] )

InitCheckout ==
    /\ menu = DefaultMenu
    /\ users = EmptyMap
    /\ carts = EmptyMap
    /\ orders = EmptyMap
    /\ reservations = EmptyMap
    /\ reviews = EmptyMap
    /\ promo_codes = CheckoutPromoCodes
    /\ order_counter = 1
    /\ reservation_counter = 1
    /\ review_counter = 1
    /\ settings = DefaultSettings
    /\ now = 0
    /\ resp = Response("init", 0, 0, "ok")
    /\ nops = 0
    /\ file = store
    /\ tasks = NoTasks

NextCheckout ==
    \/ \E u \in Users, i \in {4, 7} : add_to_cart(u, i, 1) /\ UNCHANGED tasks
    \/ \E u \in Users : remove_from_cart(u, 4) /\ UNCHANGED tasks
    \/ \E u \in Users, c \in {"MIN30", "OLD"} : apply_promo_code(u, c)
           /\ UNCHANGED tasks
    \/ \E u \in Users : checkout(u) /\ UNCHANGED tasks
    \/ \E u \in Users : create_order(u) /\ UNCHANGED tasks
    \/ create_promo_code("PCT150", "percentage", 150, 0, None)
           /\ UNCHANGED tasks
    \/ toggle_item_availability(admin_id, 4) /\ UNCHANGED tasks

SpecCheckout == InitCheckout /\ [][NextCheckout]_vars

\* The user's records: the order and reservation callbacks tried by the owner
\* and by the other user, on ids that exist and on one that does not.
RecordIds == 1 .. MaxOrders

NextOwner ==
    \/ \E u \in Users : add_to_cart(u, 4, 1) /\ UNCHANGED tasks
    \/ \E u \in Users : create_order(u) /\ UNCHANGED tasks
    \/ \E u \in Users : create_reservation(u) /\ UNCHANGED tasks
    \/ \E u \in Users, o \in RecordIds : show_order_details(u, o)
           /\ UNCHANGED tasks
    \/ \E u \in Users, o \in RecordIds : reorder(u, o) /\ UNCHANGED tasks
    \/ \E u \in Users, o \in RecordIds : cancel_order(u, o) /\ UNCHANGED tasks
    \/ \E u \in Users, r \in RecordIds : show_reservation_details(u, r)
           /\ UNCHANGED tasks
    \/ \E u \in Users, r \in RecordIds : cancel_reservation(u, r)
           /\ UNCHANGED tasks
    \/ toggle_item_availability(admin_id, 4) /\ UNCHANGED tasks
    \/ \E d \in TickInputs : Tick(d) /\ UNCHANGED tasks

SpecOwner == Init /\ [][NextOwner]_vars

\* The admin panel: every admin operation tried by the admin and by a user, the
\* status callback with each status of the keyboard and with a text that is
\* none of them, next to the checkout and the user's own cancel.
StatusInputs == ORDER_STATUSES \cup {"bogus"}
AdminViews ==
    { "/admin", "admin_panel", "admin_stats", "admin_orders", "admin_order",
      "admin_menu", "admin_category" }

NextAdmin ==
    \/ \E u \in Users : add_to_cart(u, 4, 1) /\ UNCHANGED tasks
    \/ \E u \in Users : create_order(u) /\ UNCHANGED tasks
    \/ \E u \in Users, o \in OrderIds : cancel_order(u, o) /\ UNCHANGED tasks
    \/ \E c \in Callers, o \in OrderIds, st \in StatusInputs :
           admin_update_order_status(c, TRUE, o, st) /\ UNCHANGED tasks
    \/ \E c \in Callers : admin_update_order_status(c, FALSE, 0, None)
           /\ UNCHANGED tasks
    \/ \E c \in Callers, i \in {4, 99} : toggle_item_availability(c, i)
           /\ UNCHANGED tasks
    \/ \E c \in Callers, v \in AdminViews : admin_view(c, v) /\ UNCHANGED tasks
    \/ \E d \in TickInputs : Tick(d) /\ UNCHANGED tasks

SpecAdmin == Init /\ [][NextAdmin]_vars

\* The address book: add_user_address tried with fresh dicts and with dicts
\* passed before, next to the checkout, which writes the same user records.
AddressObjects == 1 .. MaxAddresses

NextAddr ==
    \/ \E u \in Users, obj \in AddressObjects, d \in BOOLEAN :
           add_user_address(u, obj, d) /\ UNCHANGED tasks
    \/ \E u \in Users : add_to_cart(u, 4, 1) /\ UNCHANGED tasks
    \/ \E u \in Users : create_order(u) /\ UNCHANGED tasks

SpecAddr == Init /\ [][NextAddr]_vars

\* ------------------------------------------- handlers as concurrent coroutines
\* dp.start_polling hands every update to its own task; a task runs until it
\* awaits, and another task may run before it resumes.

\* The updates dispatched: the mutating callbacks with the user (or the admin)
\* who pressed them and the id their callback data names.
TaskInputs ==
    { << "checkout", 1, 0 >>, << "checkout", 2, 0 >>,
      << "increase_quantity", 1, 4 >>, << "decrease_quantity", 1, 4 >>,
      << "remove_item", 1, 4 >>, << "reorder", 1, 1 >>,
      << "cancel_order", 1, 1 >>, << "cancel_order", 2, 1 >>,
      << "cancel_reservation", 1, 1 >>,
      << "admin_update_order_status", admin_id, 1 >>,
      << "toggle_item_availability", admin_id, 4 >> }

\* remove_item: the cart's remove button
remove_item(caller, item_id) == remove_from_cart(caller, item_id)

\* an update arrives and its handler is scheduled; updates arrive in order
dispatch(k, handler, caller, arg) ==
    /\ tasks[k].pc = "idle"
    /\ \A j \in TaskIds : j < k => tasks[j].pc # "idle"
    /\ tasks' = [tasks EXCEPT ![k] =
           [handler |-> handler, caller |-> caller, arg |-> arg,
            pc |-> "ready", local |-> 0, result |-> None]]
    /\ UNCHANGED << store, now, resp, nops, file >>

\* The handler of task k runs from its start to its first await: its reads of
\* the store, its checks and its write all lie before the first await.
run_handler(k) ==
    LET t == tasks[k]
    IN  /\ t.pc = "ready"
        /\ \/ t.handler = "checkout" /\ checkout(t.caller)
           \/ t.handler = "increase_quantity" /\ increase_quantity(t.caller, t.arg)
           \/ t.handler = "decrease_quantity" /\ decrease_quantity(t.caller, t.arg)
           \/ t.handler = "remove_item" /\ remove_item(t.caller, t.arg)
           \/ t.handler = "reorder" /\ reorder(t.caller, t.arg)
           \/ t.handler = "cancel_order" /\ cancel_order(t.caller, t.arg)
           \/ t.handler = "cancel_reservation"
                  /\ cancel_reservation(t.caller, t.arg)
           \/ t.handler = "admin_update_order_status"
                  /\ admin_update_order_status(t.caller, TRUE, t.arg,
                                               ORDER_STATUS_CONFIRMED)
           \/ t.handler = "toggle_item_availability"
                  /\ toggle_item_availability(t.caller, t.arg)
        /\ tasks' = [tasks EXCEPT
               ![k].pc = "awaiting",
               ![k].result = resp'.result,
               ![k].local =
                   IF t.handler \in {"increase_quantity", "decrease_quantity"}
                   THEN QuantityOf(get_cart(carts, t.caller)[t.caller], t.arg)
                   ELSE 0]

\* the handlers that go on to show_cart after their answer
RefreshesCart(t) ==
    \/ t.handler \in {"decrease_quantity", "remove_item"}
    \/ t.handler \in {"increase_quantity", "reorder"} /\ t.result = "ok"

resume_handler_stale_write(k) ==
    LET t == tasks[k]
    IN  /\ t.pc = "awaiting"
        /\ carts' =
               IF t.handler = "increase_quantity" /\ t.result = "ok"
               THEN update_cart_total(
                        [carts EXCEPT ![t.caller].items =
                             SetQuantity(@, t.arg, t.local + 1)], t.caller)
               ELSE IF RefreshesCart(t) THEN get_cart(carts, t.caller) ELSE carts
        /\ tasks' = [tasks EXCEPT ![k].pc = "done"]
        /\ UNCHANGED << menu, users, orders, reservations, reviews, promo_codes,
                        order_counter, reservation_counter, review_counter,
                        settings, now, resp, nops, file >>

\* The handler of task k resumes after its answer and runs to its return: the
\* refresh of the view it came from (show_cart's get_cart for the cart
\* callbacks, a lookup for the others).
resume_handler(k) ==
    LET t == tasks[k]
    IN  /\ t.pc = "awaiting"
        /\ carts' = IF RefreshesCart(t) THEN get_cart(carts, t.caller) ELSE carts
        /\ tasks' = [tasks EXCEPT ![k].pc = "done"]
        /\ UNCHANGED << menu, users, orders, reservations, reviews, promo_codes,
                        order_counter, reservation_counter, review_counter,
                        settings, now, resp, nops, file >>

\* The store of a persistence file: user 1 has ordered once (order 1, still
\* pending), holds a reservation and has two of item 4 in the cart.
ConcCarts ==
    1 :> [items |-> (4 :> 2), total |-> 2000, discount |-> 0,
          promo_code |-> None]

ConcOrders ==
    1 :> [order_id |-> 1, user_id |-> 1, items |-> (4 :> 2), total |-> 2000,
          discount |-> 0, delivery_fee |-> 250, promo_code |-> None,
          status |-> ORDER_STATUS_PENDING, created_at |-> 0, updated_at |-> 0]

ConcReservations ==
    1 :> [reservation_id |-> 1, user_id |-> 1, status |-> "pending",
          created_at |-> 0, updated_at |-> 0]

ConcUsers ==
    1 :> [DefaultUser EXCEPT !.total_orders = 1,
                             !.loyalty_points = points_earned(2000)]

InitConc ==
    /\ menu = DefaultMenu
    /\ users = ConcUsers
    /\ carts = ConcCarts
    /\ orders = ConcOrders
    /\ reservations = ConcReservations
    /\ reviews = EmptyMap
    /\ promo_codes = LoadedPromoCodes
    /\ order_counter = 2
    /\ reservation_counter = 2
    /\ review_counter = 1
    /\ settings = DefaultSettings
    /\ now = 0
    /\ resp = Response("init", 0, 0, "ok")
    /\ nops = 0
    /\ file = store
    /\ tasks = NoTasks

NextConc ==
    \/ \E k \in TaskIds, i \in TaskInputs : dispatch(k, i[1], i[2], i[3])
    \/ \E k \in TaskIds : run_handler(k)
    \/ \E k \in TaskIds : resume_handler(k)

SpecConc == InitConc /\ [][NextConc]_vars

\* ------------------------------------------------- carts with a stale promo
\* The store of a persistence file in which the promo attached to a cart has
\* since been deactivated (OLD, user 1) or taken out (GONE, user 2).
StaleCarts ==
    ( 1 :> [items |-> (4 :> 1), total |-> 1000, discount |-> 500,
            promo_code |-> "OLD"] ) @@
    ( 2 :> [items |-> (4 :> 2), total |-> 2000, discount |-> 500,
            promo_code |-> "GONE"] )

InitStale ==
    /\ menu = DefaultMenu
    /\ users = EmptyMap
    /\ carts = StaleCarts
    /\ orders = EmptyMap
    /\ reservations = EmptyMap
    /\ reviews = EmptyMap
    /\ promo_codes = CheckoutPromoCodes
    /\ order_counter = 1
    /\ reservation_counter = 1
    /\ review_counter = 1
    /\ settings = DefaultSettings
    /\ now = 0
    /\ resp = Response("init", 0, 0, "ok")
    /\ nops = 0
    /\ file = store
    /\ tasks = NoTasks

NextStale ==
    \/ \E u \in Users, i \in {4, 7} : add_to_cart(u, i, 1) /\ UNCHANGED tasks
    \/ \E u \in Users, q \in {0, MaxQty} :
           update_cart_item_quantity(u, 4, q) /\ UNCHANGED tasks
    \/ \E u \in Users : remove_from_cart(u, 4) /\ UNCHANGED tasks
    \/ \E u \in Users, c \in {"MIN30", "OLD", "GONE"} :
           apply_promo_code(u, c) /\ UNCHANGED tasks
    \/ \E u \in Users : show_cart(u) /\ UNCHANGED tasks
    \/ \E u \in Users : create_order(u) /\ UNCHANGED tasks

SpecStale == InitStale /\ [][NextStale]_vars

\* ------------------------------------------------- promos with a use limit
\* The store of a persistence file: the promo ONCE, created with max_uses 1,
\* and two users who each hold two of item 4.
UsesPromoCodes ==
    LoadedPromoCodes @@
    ( "ONCE" :> [discount_type |-> "fixed", discount_value |-> 500,
                 min_order |-> 0, max_uses |-> 1, used_count |-> 0,
                 is_active |-> TRUE] )

UsesCarts ==
    [u \in Users |-> [items |-> (4 :> 2), total |-> 2000, discount |-> 0,
                      promo_code |-> None]]

InitUses ==
    /\ menu = DefaultMenu
    /\ users = EmptyMap
    /\ carts = UsesCarts
    /\ orders = EmptyMap
    /\ reservations = EmptyMap
    /\ reviews = EmptyMap
    /\ promo_codes = UsesPromoCodes
    /\ order_counter = 1
    /\ reservation_counter = 1
    /\ review_counter = 1
    /\ settings = DefaultSettings
    /\ now = 0
    /\ resp = Response("init", 0, 0, "ok")
    /\ nops = 0
    /\ file = store
    /\ tasks = NoTasks

NextUses ==
    \/ \E u \in Users, c \in {"ONCE", "TWICE", "OLD"} :
           apply_promo_code(u, c) /\ UNCHANGED tasks
    \/ \E u \in Users : checkout(u) /\ UNCHANGED tasks
    \/ \E u \in Users : create_order(u) /\ UNCHANGED tasks
    \/ \E u \in Users : add_to_cart(u, 4, 1) /\ UNCHANGED tasks
    \/ \E u \in Users : clear_cart(u) /\ UNCHANGED tasks
    \/ create_promo_code("TWICE", "percentage", 10, 0, 2) /\ UNCHANGED tasks

SpecUses == InitUses /\ [][NextUses]_vars

\* ------------------------------------------------ runs of user actions only
\* The store of a persistence file: order 1 of user 1, confirmed by the admin
\* in an earlier run, and user 2 holding two of item 4.
UserRunOrders ==
    1 :> [order_id |-> 1, user_id |-> 1, items |-> (4 :> 2), total |-> 2000,
          discount |-> 0, delivery_fee |-> 250, promo_code |-> None,
          status |-> ORDER_STATUS_CONFIRMED, created_at |-> 0, updated_at |-> 0]

UserRunCarts ==
    2 :> [items |-> (4 :> 2), total |-> 2000, discount |-> 0,
          promo_code |-> None]

InitUserRun ==
    /\ menu = DefaultMenu
    /\ users = ConcUsers
    /\ carts = UserRunCarts
    /\ orders = UserRunOrders
    /\ reservations = EmptyMap
    /\ reviews = EmptyMap
    /\ promo_codes = LoadedPromoCodes
    /\ order_counter = 2
    /\ reservation_counter = 1
    /\ review_counter = 1
    /\ settings = DefaultSettings
    /\ now = 0
    /\ resp = Response("init", 0, 0, "ok")
    /\ nops = 0
    /\ file = store
    /\ tasks = NoTasks

NextUserRun ==
    \/ \E u \in Users : add_to_cart_handler(u, 4) /\ UNCHANGED tasks
    \/ \E u \in Users : checkout(u) /\ UNCHANGED tasks
    \/ \E u \in Users, o \in OrderIds : cancel_order(u, o) /\ UNCHANGED tasks
    \/ \E u \in Users, o \in OrderIds : reorder(u, o) /\ UNCHANGED tasks
    \/ \E u \in Users, o \in OrderIds : show_order_details(u, o)
           /\ UNCHANGED tasks
    \/ \E u \in Users, o \in OrderIds :
           admin_update_order_status(u, TRUE, o, ORDER_STATUS_DELIVERED)
           /\ UNCHANGED tasks
    \/ \E d \in TickInputs : Tick(d) /\ UNCHANGED tasks

SpecUserRun == InitUserRun /\ [][NextUserRun]_vars

\* ------------------------------------------- admin updates of loaded orders
\* the admin's status buttons pressed on the orders of a loaded store
NextAdminRun ==
    \/ \E c \in Callers, o \in OrderIds, st \in ORDER_STATUSES :
           admin_update_order_status(c, TRUE, o, st) /\ UNCHANGED tasks
    \/ \E u \in Users, o \in OrderIds : cancel_order(u, o) /\ UNCHANGED tasks
    \/ \E u \in Users : checkout(u) /\ UNCHANGED tasks
    \/ \E d \in TickInputs : Tick(d) /\ UNCHANGED tasks

SpecAdminRun == InitUserRun /\ [][NextAdminRun]_vars

\* ------------------------------------------------------------------ reviews
RatingInputs == {MIN_RATING - 1, MIN_RATING, MAX_RATING, MAX_RATING + 1}

NextReview ==
    \/ \E u \in Users : add_to_cart(u, 4, 1) /\ UNCHANGED tasks
    \/ \E u \in Users : create_order(u) /\ UNCHANGED tasks
    \/ \E u \in Users, o \in OrderIds : review_order_prompt(u, o)
           /\ UNCHANGED tasks
    \/ \E u \in Users, o \in OrderIds, r \in RatingInputs :
           submit_order_rating(u, o, r) /\ UNCHANGED tasks

SpecReview == Init /\ [][NextReview]_vars

\* ------------------------------------------- cancels, updates and their views
\* the detail views, the cancel buttons and the admin's status buttons pressed
\* on the order and the reservation of a loaded store
NextRefresh ==
    \/ \E u \in Users, o \in OrderIds : show_order_details(u, o)
           /\ UNCHANGED tasks
    \/ \E u \in Users, o \in OrderIds : cancel_order(u, o) /\ UNCHANGED tasks
    \/ \E u \in Users, r \in RecordIds : show_reservation_details(u, r)
           /\ UNCHANGED tasks
    \/ \E u \in Users, r \in RecordIds : cancel_reservation(u, r)
           /\ UNCHANGED tasks
    \/ \E c \in Callers, o \in OrderIds, st \in ORDER_STATUSES :
           admin_update_order_status(c, TRUE, o, st) /\ UNCHANGED tasks
    \/ \E c \in Callers : admin_update_order_status(c, FALSE, 0, None)
           /\ UNCHANGED tasks
    \/ \E d \in TickInputs : Tick(d) /\ UNCHANGED tasks

SpecRefresh == InitConc /\ [][NextRefresh]_vars

\* ------------------------------------------------------ callback dispatching
\* Callback data is kept as its parts between underscores.  F.data == s holds
\* for the data with the parts of s; F.data.startswith(s), s ending in an
\* underscore, holds for the data with the parts of s and at least one more.
Exact(pattern, handler) ==
    [kind |-> "exact", pattern |-> pattern, handler |-> handler]
Prefix(pattern, handler) ==
    [kind |-> "prefix", pattern |-> pattern, handler |-> handler]

admin_dashboard_router ==
    << Exact(<< "admin", "panel" >>, "admin_panel_callback"),
       Exact(<< "admin", "stats" >>, "show_stats") >>

admin_orders_router ==
    << Exact(<< "admin", "orders" >>, "show_admin_orders"),
       Prefix(<< "admin", "order" >>, "show_admin_order_details"),
       Prefix(<< "admin", "update", "status" >>, "update_order_status") >>

admin_menu_router ==
    << Exact(<< "admin", "menu" >>, "show_admin_menu"),
       Prefix(<< "admin", "category" >>, "show_category_items_admin"),
       Prefix(<< "admin", "toggle", "item" >>, "toggle_item_availability") >>

menu_router ==
    << Exact(<< "menu" >>, "show_menu_categories"),
       Prefix(<< "category" >>, "show_category_items"),
       Prefix(<< "add" >>, "add_to_cart"),
       Exact(<< "contact" >>, "show_contact"),
       Exact(<< "location" >>, "show_location"),
       Exact(<< "hours" >>, "show_hours"),
       Exact(<< "back" >>, "go_back") >>

cart_router ==
    << Exact(<< "cart" >>, "show_cart"),
       Prefix(<< "cart", "inc" >>, "increase_quantity"),
       Prefix(<< "cart", "dec" >>, "decrease_quantity"),
       Prefix(<< "cart", "remove" >>, "remove_item"),
       Exact(<< "clear", "cart" >>, "clear_cart_handler"),
       Exact(<< "apply", "promo" >>, "apply_promo_prompt") >>

orders_router ==
    << Exact(<< "orders" >>, "show_order_history"),
       Prefix(<< "order" >>, "show_order_details"),
       Prefix(<< "reorder" >>, "reorder"),
       Prefix(<< "cancel", "order" >>, "cancel_order") >>

profile_router ==
    << Exact(<< "profile" >>, "show_profile"),
       Exact(<< "addresses" >>, "show_addresses"),
       Exact(<< "add", "address" >>, "add_address_prompt"),
       Exact(<< "favorites" >>, "show_favorites"),
       Prefix(<< "remove", "favorite" >>, "remove_favorite"),
       Exact(<< "loyalty" >>, "show_loyalty"),
       Exact(<< "preferences" >>, "show_preferences") >>

reservations_router ==
    << Exact(<< "reservations" >>, "show_reservations"),
       Exact(<< "new", "reservation" >>, "new_reservation_prompt"),
       Prefix(<< "reservation" >>, "show_reservation_details"),
       Prefix(<< "cancel", "reservation" >>, "cancel_reservation") >>

reviews_router ==
    << Prefix(<< "review", "order" >>, "review_order_prompt"),
       Prefix(<< "rate", "order" >>, "submit_order_rating") >>

promotions_router ==
    << Exact(<< "promotions" >>, "show_promotions"),
       Exact(<< "apply", "promo" >>, "apply_promo_callback") >>

payment_router == << Exact(<< "checkout" >>, "process_checkout") >>

\* the callback handlers in the order main() includes their routers
\* (start_router holds no callback handler)
Routers ==
    admin_dashboard_router \o admin_orders_router \o admin_menu_router
    \o menu_router \o cart_router \o orders_router \o profile_router
    \o reservations_router \o reviews_router \o promotions_router
    \o payment_router

Matches(f, parts) ==
    IF f.kind = "exact" THEN parts = f.pattern
    ELSE /\ Len(parts) > Len(f.pattern)
         /\ SubSeq(parts, 1, Len(f.pattern)) = f.pattern

\* the handler a callback reaches: the first registered one whose filter
\* matches
route(parts) ==
    LET hits == {k \in DOMAIN Routers : Matches(Routers[k], parts)}
    IN  IF hits = {} THEN "unhandled"
        ELSE Routers[CHOOSE k \in hits : \A j \in hits : k <= j].handler

\* The callback data the keyboards send: every exact string, and for every
\* prefix the data of a button that carries it.
Callbacks ==
    << << "admin", "panel" >>, << "admin", "stats" >>, << "admin", "orders" >>,
       << "admin", "menu" >>, << "menu" >>, << "contact" >>, << "location" >>,
       << "hours" >>, << "back" >>, << "cart" >>, << "clear", "cart" >>,
       << "apply", "promo" >>, << "orders" >>, << "profile" >>,
       << "addresses" >>, << "add", "address" >>, << "favorites" >>,
       << "loyalty" >>, << "preferences" >>, << "reservations" >>,
       << "new", "reservation" >>, << "promotions" >>, << "checkout" >>,
       << "admin", "order", "1" >>,
       << "admin", "update", "status", "1", "confirmed" >>,
       << "admin", "category", "pizza" >>, << "admin", "toggle", "item", "4" >>,
       << "category", "pizza" >>, << "add", "4" >>, << "add", "comment", "1" >>,
       << "cart", "inc", "4" >>, << "cart", "dec", "4" >>,
       << "cart", "remove", "4" >>, << "order", "1" >>, << "reorder", "1" >>,
       << "cancel", "order", "1" >>, << "remove", "favorite", "4" >>,
       << "reservation", "1" >>, << "cancel", "reservation", "1" >>,
       << "review", "order", "1" >>, << "rate", "order", "1", "5" >>,
       << "address", "1" >> >>

\* a callback query arrives and is routed; resp.arg is its place in Callbacks
\* and resp.result the handler it reaches
callback_query(caller, i) ==
    /\ Step
    /\ resp' = Response("callback_query", caller, i, route(Callbacks[i]))
    /\ UNCHANGED << store, now, file, tasks >>

NextRoute == \E c \in Callers, i \in DOMAIN Callbacks : callback_query(c, i)

SpecRoute == Init /\ [][NextRoute]_vars

\* ------------------------------------------------------------------ reorders
\* The store of a persistence file: order 1 of user 1 holds items 4 and 7 and
\* item 99, which the menu no longer has; user 1 has one of item 4 in the cart.
ReorderOrders ==
    1 :> [order_id |-> 1, user_id |-> 1,
          items |-> (4 :> 2) @@ (7 :> 1) @@ (99 :> 1), total |-> 2300,
          discount |-> 0, delivery_fee |-> 250, promo_code |-> None,
          status |-> ORDER_STATUS_DELIVERED, created_at |-> 0, updated_at |-> 0]

ReorderCarts ==
    1 :> [items |-> (4 :> 1), total |-> 1000, discount |-> 0,
          promo_code |-> None]

InitReorder ==
    /\ menu = DefaultMenu
    /\ users = ConcUsers
    /\ carts = ReorderCarts
    /\ orders = ReorderOrders
    /\ reservations = EmptyMap
    /\ reviews = EmptyMap
    /\ promo_codes = LoadedPromoCodes
    /\ order_counter = 2
    /\ reservation_counter = 1
    /\ review_counter = 1
    /\ settings = DefaultSettings
    /\ now = 0
    /\ resp = Response("init", 0, 0, "ok")
    /\ nops = 0
    /\ file = store
    /\ tasks = NoTasks

NextReorder ==
    \/ \E u \in Users, o \in OrderIds : reorder(u, o) /\ UNCHANGED tasks
    \/ \E i \in {4, 7} : toggle_item_availability(admin_id, i)
           /\ UNCHANGED tasks
    \/ \E u \in Users : add_to_cart_handler(u, 7) /\ UNCHANGED tasks
    \/ \E u \in Users : decrease_quantity(u, 4) /\ UNCHANGED tasks
    \/ \E u \in Users : clear_cart(u) /\ UNCHANGED tasks
    \/ \E u \in Users : checkout(u) /\ UNCHANGED tasks

SpecReorder == InitReorder /\ [][NextReorder]_vars

\* ------------------------------------------------- a user's reservations
\* A store loaded from a file that holds two reservations of user 1: one
\* pending and one confirmed.  (No handler writes "confirmed" or "completed"
\* to a reservation; such a record can only come from the file.)
LoadedReservations ==
    (1 :> [reservation_id |-> 1, user_id |-> 1, status |-> "pending",
           created_at |-> 0, updated_at |-> 0])
    @@ (2 :> [reservation_id |-> 2, user_id |-> 1, status |-> "confirmed",
              created_at |-> 0, updated_at |-> 0])

InitReservations ==
    /\ menu = DefaultMenu
    /\ users = 1 :> DefaultUser
    /\ carts = EmptyMap
    /\ orders = EmptyMap
    /\ reservations = LoadedReservations
    /\ reviews = EmptyMap
    /\ promo_codes = EmptyMap
    /\ order_counter = 1
    /\ reservation_counter = 3
    /\ review_counter = 1
    /\ settings = DefaultSettings
    /\ now = 0
    /\ resp = Response("init", 0, 0, "ok")
    /\ nops = 0
    /\ file = store
    /\ tasks = NoTasks

\* The reservation callbacks, tried by the owner and by the other user on the
\* ids that exist and on one that does not, while time passes.
ReservationIds == 1 .. MaxReservations + 2

NextReservations ==
    \/ \E u \in Users, r \in ReservationIds : show_reservation_details(u, r)
           /\ UNCHANGED tasks
    \/ \E u \in Users, r \in ReservationIds : cancel_reservation(u, r)
           /\ UNCHANGED tasks
    \/ \E d \in TickInputs : Tick(d) /\ UNCHANGED tasks

SpecReservations == InitReservations /\ [][NextReservations]_vars

\* ------------------------------------------- the discount calculator alone
\* Subtotals are whole dollars, as every sum of menu prices is.
MaxCalcDollars == 12
CalcTotals == { 100 * k : k \in 0 .. MaxCalcDollars }
CalcPromos ==
    [discount_type : {"percentage"}, discount_value : {0, 10, 50, 100, 150}]
    \cup [discount_type : {"fixed"}, discount_value : {0, 500, 1000, 2000}]

calculate_discount_call(total, promo) ==
    /\ resp' = [op |-> "calculate_discount", total |-> total, promo |-> promo,
                discount |-> calculate_discount(total, promo)]
    /\ UNCHANGED << store, now, nops, file, tasks >>

NextCalc == \E t \in CalcTotals, p \in CalcPromos : calculate_discount_call(t, p)

SpecCalc == Init /\ [][NextCalc]_vars

\* =================================================================== claims

\* The sum of price * quantity over the entries of an item mapping whose item
\* is in the menu and available.
RECURSIVE PricedSum(_, _)
PricedSum(items, ids) ==
    IF ids = {} THEN 0
    ELSE LET i == CHOOSE x \in ids : TRUE
         IN  menu[i].price * items[i] + PricedSum(items, ids \ {i})

AvailableIds(items) ==
    { i \in DOMAIN items : i \in DOMAIN menu /\ menu[i].available }

AvailableSum(items) == PricedSum(items, AvailableIds(items))

\* the item mapping of a user's cart, empty when the user has no cart record
ItemsOf(cs, u) == IF u \in DOMAIN cs THEN cs[u].items ELSE EmptyMap

\* the last operation changed the caller's cart
CartMutated ==
    \/ resp.op \in { "add_to_cart", "update_cart_item_quantity",
                     "remove_from_cart", "clear_cart" }
    \/ resp.op = "apply_promo_code" /\ resp.result = "True"

C1_TotalAfterMutation ==
    (CartMutated /\ resp.caller \in DOMAIN carts)
        => carts[resp.caller].total = AvailableSum(carts[resp.caller].items)

C1_UnavailableStay ==
    \A u \in Users :
        ( /\ resp'.caller = u
          /\ \/ resp'.op \in { "add_to_cart", "update_cart_item_quantity",
                               "remove_from_cart" }
             \/ resp'.op = "apply_promo_code" /\ resp'.result = "True" )
        => \A j \in DOMAIN ItemsOf(carts, u) :
               (j /= resp'.arg /\ j \notin AvailableIds(ItemsOf(carts, u)))
               => /\ j \in DOMAIN ItemsOf(carts', u)
                  /\ ItemsOf(carts', u)[j] = ItemsOf(carts, u)[j]

CreateOrderFailed == resp'.op = "create_order" /\ resp'.result = "ValueError"

\* create_order was called by u on a cart without entries
CreateOrderOnEmpty ==
    resp'.op = "create_order" /\ DOMAIN ItemsOf(carts, resp'.caller) = {}

\* the store apart from the carts
StoreButCarts ==
    << menu, users, orders, reservations, reviews, promo_codes,
       order_counter, reservation_counter, review_counter, settings >>

\* C2 as claimed: create_order on a cart with no entries fails and leaves the
\* whole store unchanged.
C2_Original ==
    [][ /\ CreateOrderOnEmpty => CreateOrderFailed
        /\ CreateOrderFailed => store' = store ]_vars

\* C2: create_order on a cart with no entries fails with ValueError; no order is
\* added, no counter advanced, the users table and every existing cart record
\* are unchanged; the only change is that a caller without a cart record gets an
\* empty one.
C2_EmptyCartFails ==
    [][ /\ CreateOrderOnEmpty => CreateOrderFailed
        /\ CreateOrderFailed =>
              /\ StoreButCarts' = StoreButCarts
              /\ DOMAIN carts' = DOMAIN carts \cup {resp'.caller}
              /\ \A v \in DOMAIN carts : carts'[v] = carts[v]
              /\ carts'[resp'.caller].items = EmptyMap
              /\ resp'.caller \notin DOMAIN carts =>
                     carts'[resp'.caller] =
                         [items |-> EmptyMap, total |-> 0, discount |-> 0,
                          promo_code |-> None] ]_vars

\* C2 witness: create_order has failed for a user who has placed an order before
C2_Witness ==
    /\ resp.op = "create_order"
    /\ resp.result = "ValueError"
    /\ resp.caller \in DOMAIN users
    /\ users[resp.caller].total_orders = 1
    /\ order_counter = 2

\* ids 1..n, each record stored under its own id, n + 1 the counter
Numbered(table, counter, field) ==
    /\ DOMAIN table = 1 .. Cardinality(DOMAIN table)
    /\ counter = Cardinality(DOMAIN table) + 1
    /\ \A id \in DOMAIN table : table[id][field] = id

\* a record of a kind is created by a step: it gets the next free number, and
\* the records of that kind already there keep their id and owner
Allocates(op, table, tableNext) ==
    /\ \A id \in DOMAIN table :
           id \in DOMAIN tableNext /\ tableNext[id].user_id = table[id].user_id
    /\ IF resp'.op = op /\ resp'.result = "ok"
       THEN /\ resp'.arg = Cardinality(DOMAIN table) + 1
            /\ DOMAIN tableNext = DOMAIN table \cup {resp'.arg}
            /\ tableNext[resp'.arg].user_id = resp'.caller
       ELSE DOMAIN tableNext = DOMAIN table

C3_Numbered ==
    /\ Numbered(orders, order_counter, "order_id")
    /\ Numbered(reservations, reservation_counter, "reservation_id")
    /\ Numbered(reviews, review_counter, "review_id")

C3_Allocation ==
    /\ Allocates("create_order", orders, orders')
    /\ Allocates("create_reservation", reservations, reservations')
    /\ Allocates("create_review", reviews, reviews')
    /\ resp'.op /= "create_order" => order_counter' = order_counter
    /\ resp'.op /= "create_reservation" =>
           reservation_counter' = reservation_counter
    /\ resp'.op /= "create_review" => review_counter' = review_counter

CreateOrderDone == resp'.op = "create_order" /\ resp'.result = "ok"

C4_Snapshot ==
    LET u == resp'.caller
        id == resp'.arg
    IN  /\ ( resp'.op = "create_order" /\ DOMAIN ItemsOf(carts, u) /= {} )
            => CreateOrderDone
        /\ CreateOrderDone =>
              /\ id \notin DOMAIN orders
              /\ orders'[id].user_id = u
              /\ orders'[id].items = carts[u].items
              /\ orders'[id].total = carts[u].total
              /\ orders'[id].discount = carts[u].discount
              /\ orders'[id].promo_code = carts[u].promo_code
              /\ orders'[id].delivery_fee = settings.delivery_fee
              /\ orders'[id].status = "pending"
              /\ users'[u].total_orders =
                     (IF u \in DOMAIN users THEN users[u].total_orders ELSE 0) + 1
              /\ carts'[u] = [items |-> EmptyMap, total |-> 0, discount |-> 0,
                              promo_code |-> None]
              /\ DOMAIN carts' = DOMAIN carts
              /\ \A v \in DOMAIN carts \ {u} : carts'[v] = carts[v]

\* C4: create_order on a non-empty cart stores an order with the cart's items,
\* total, discount and promo code, the current delivery fee and status pending,
\* adds 1 to the user's total_orders, empties that user's cart and leaves the
\* other carts as they were.
C4_OrderSnapshot == [][C4_Snapshot]_vars

\* C4 witness: an order was just created from a cart that carried a promo code
\* and a discount, and the cart is empty again
C4_Witness ==
    /\ resp.op = "create_order"
    /\ resp.result = "ok"
    /\ orders[resp.arg].promo_code /= None
    /\ orders[resp.arg].discount > 0
    /\ orders[resp.arg].total > 0
    /\ carts[resp.caller].items = EmptyMap

\* the cancel handler was called by the owner of an existing order
OwnCancel ==
    /\ resp'.op = "cancel_order"
    /\ resp'.arg \in DOMAIN orders
    /\ orders[resp'.arg].user_id = resp'.caller

\* what a cancel request must do, given whether the order can still be cancelled
CancelOutcome(allowed) ==
    OwnCancel =>
        IF allowed
        THEN /\ resp'.result = "cancelled"
             /\ orders'[resp'.arg].status = "cancelled"
             /\ orders'[resp'.arg].updated_at = now
        ELSE /\ resp'.result /= "cancelled"
             /\ orders' = orders

\* C5 as claimed: the request succeeds exactly when the order is pending and
\* the time since created_at is strictly below the limit.
C5_Original ==
    [][ CancelOutcome( /\ orders[resp'.arg].status = "pending"
                       /\ now - orders[resp'.arg].created_at < 5 ) ]_vars

\* C5: a user's cancel request on their own order succeeds (status cancelled,
\* updated_at refreshed) exactly when the order is pending and the time since
\* created_at is at most the 5-minute limit; when the time is past the limit or
\* the status is not pending it fails and the order is unchanged.
C5_CancelWindow ==
    [][ CancelOutcome( /\ orders[resp'.arg].status = "pending"
                       /\ now - orders[resp'.arg].created_at <= 5 ) ]_vars

\* C5 witness: an order is cancelled by its owner exactly 5 minutes after it
\* was created
C5_Witness ==
    /\ resp.op = "cancel_order"
    /\ resp.result = "cancelled"
    /\ now - orders[resp.arg].created_at = 5
    /\ orders[resp.arg].updated_at = now

C6_Frozen ==
    \A id \in DOMAIN orders :
        /\ id \in DOMAIN orders'
        /\ orders'[id].order_id = orders[id].order_id
        /\ orders'[id].user_id = orders[id].user_id
        /\ orders'[id].items = orders[id].items
        /\ orders'[id].total = orders[id].total
        /\ orders'[id].discount = orders[id].discount
        /\ orders'[id].delivery_fee = orders[id].delivery_fee
        /\ orders'[id].promo_code = orders[id].promo_code
        /\ orders'[id].created_at = orders[id].created_at

\* C6: no operation changes the items, total, discount, delivery_fee or
\* promo_code of an order that exists (nor its id, owner or created_at); only
\* status and updated_at change.
C6_OrderFrozen == [][C6_Frozen]_vars

\* C6 witness: an order keeps the delivery fee it was created with after the
\* settings changed and its status was updated
C6_Witness ==
    \E id \in DOMAIN orders :
        /\ orders[id].delivery_fee /= settings.delivery_fee
        /\ orders[id].status /= "pending"
        /\ resp.op = "update_order_status"

\* C7: a cart without a promo code has discount 0; a cart with a promo code
\* has the discount the calculator gives for its stored total and that promo
\* record.
C7_DiscountDerived ==
    \A u \in DOMAIN carts :
        IF carts[u].promo_code = None
        THEN carts[u].discount = 0
        ELSE /\ carts[u].promo_code \in DOMAIN promo_codes
             /\ carts[u].discount =
                    calculate_discount(carts[u].total,
                                       promo_codes[carts[u].promo_code])

\* C7 witness: a cart with a promo code and a discount has just had an item
\* added
C7_Witness ==
    /\ resp.op = "add_to_cart"
    /\ carts[resp.caller].promo_code /= None
    /\ carts[resp.caller].discount > 0
    /\ Cardinality(DOMAIN carts[resp.caller].items) = 2

C8_Rejected ==
    ( /\ resp'.op = "apply_promo_code"
      /\ \/ resp'.code \notin DOMAIN promo_codes
         \/ ~promo_codes[resp'.code].is_active )
    => /\ resp'.result = "False"
       /\ carts' = carts

\* C8: apply_promo_code with a code that does not exist or is inactive returns
\* False and leaves every cart as it was.
C8_InvalidPromoRejected == [][C8_Rejected]_vars

\* C8 witness: an inactive code was refused on a cart that carries a valid
\* promo code and its discount
C8_Witness ==
    /\ resp.op = "apply_promo_code"
    /\ resp.result = "False"
    /\ resp.code \in DOMAIN promo_codes
    /\ resp.caller \in DOMAIN carts
    /\ carts[resp.caller].promo_code /= None
    /\ carts[resp.caller].discount > 0

C9_Quantity ==
    LET u == resp'.caller
        i == resp'.arg
        q == resp'.quantity
        old == ItemsOf(carts, u)
        new == ItemsOf(carts', u)
    IN  resp'.op \in {"update_cart_item_quantity", "remove_from_cart"} =>
            /\ u \in DOMAIN carts'
            /\ IF q <= 0 THEN i \notin DOMAIN new
               ELSE i \in DOMAIN new /\ new[i] = q
            /\ DOMAIN new \ {i} = DOMAIN old \ {i}
            /\ \A j \in DOMAIN old \ {i} : new[j] = old[j]
            /\ carts'[u].total = AvailableSum(new)

\* C9: update_cart_item_quantity with a quantity <= 0 (remove_from_cart passes
\* 0) removes the item's entry, with a quantity > 0 sets the entry to that
\* quantity; every other entry is unchanged and the total is recomputed.
C9_SetQuantity == [][C9_Quantity]_vars

\* C9 witness: an entry was removed from a cart that keeps another entry
C9_Witness ==
    /\ resp.op \in {"update_cart_item_quantity", "remove_from_cart"}
    /\ resp.quantity <= 0
    /\ resp.caller \in DOMAIN carts
    /\ resp.arg \notin DOMAIN carts[resp.caller].items
    /\ carts[resp.caller].total > 0

\* C10: the calculator returns total * value / 100 for a percentage promo,
\* uncapped (150 on 10.00 gives 15.00), and the smaller of value and total for
\* a fixed promo (20.00 on 10.00 gives 10.00).
C10_Calculator ==
    resp.op = "calculate_discount" =>
        /\ resp.promo.discount_type = "percentage" =>
               resp.discount * 100 = resp.total * resp.promo.discount_value
        /\ resp.promo.discount_type = "fixed" =>
               /\ resp.discount <= resp.total
               /\ resp.discount <= resp.promo.discount_value
               /\ resp.discount \in {resp.total, resp.promo.discount_value}
        /\ ( resp.promo.discount_type = "percentage"
             /\ resp.promo.discount_value = 150 /\ resp.total = 1000 )
           => resp.discount = 1500
        /\ ( resp.promo.discount_type = "fixed"
             /\ resp.promo.discount_value = 2000 /\ resp.total = 1000 )
           => resp.discount = 1000

\* C10 witness: a percentage promo has given a discount above the total
C10_Witness ==
    /\ resp.op = "calculate_discount"
    /\ resp.promo.discount_type = "percentage"
    /\ resp.total > 0
    /\ resp.discount > resp.total

\* the whole dollars of an amount of cents
Floor(cents) == cents \div 100

RECURSIVE FloorSum(_, _)
FloorSum(os, ids) ==
    IF ids = {} THEN 0
    ELSE LET id == CHOOSE x \in ids : TRUE
         IN  Floor(os[id].total) + FloorSum(os, ids \ {id})

OrdersOf(u) == { id \in DOMAIN orders : orders[id].user_id = u }

PointsOf(us, u) == IF u \in DOMAIN us THEN us[u].loyalty_points ELSE 0

C11_Balance == \A u \in Users : PointsOf(users, u) = FloorSum(orders, OrdersOf(u))

C11_Credit ==
    /\ CreateOrderDone =>
           PointsOf(users', resp'.caller) =
               PointsOf(users, resp'.caller) + Floor(carts[resp'.caller].total)
    /\ \A u \in Users :
           ~(CreateOrderDone /\ resp'.caller = u)
               => PointsOf(users', u) = PointsOf(users, u)

DefaultCount(u) ==
    Cardinality({ k \in DOMAIN users[u].addresses :
                    users[u].addresses[k].is_default })

AllEntries ==
    { << u, k >> \in (DOMAIN users) \X (1 .. MaxAddresses + 1) :
        k \in DOMAIN users[u].addresses }

\* every entry of every list is a dict of its own
NoSharedDict ==
    \A x, y \in AllEntries :
        x /= y => users[x[1]].addresses[x[2]].obj /= users[y[1]].addresses[y[2]].obj

\* C12 as claimed: after any sequence of add_user_address calls a user with at
\* least one address has exactly one address flagged default.
C12_Original ==
    \A u \in DOMAIN users :
        users[u].addresses /= << >> => DefaultCount(u) = 1

\* C12, what holds: as long as no dict has been passed twice, a user with at
\* least one address has exactly one address flagged default, and it is the
\* first address or the one last added with is_default true.
C12_OneDefault ==
    NoSharedDict =>
        \A u \in DOMAIN users :
            users[u].addresses /= << >> => DefaultCount(u) = 1

\* C12 witness: a second address added with is_default true has taken the flag
\* from the first
C12_Witness ==
    /\ resp.op = "add_user_address"
    /\ resp.arg = 2
    /\ NoSharedDict
    /\ ~users[resp.caller].addresses[1].is_default
    /\ users[resp.caller].addresses[2].is_default

\* C13 as claimed: every stored order's status is one of the six values,
\* whatever callback data the admin status-update handler receives.
C13_Original == \A id \in DOMAIN orders : orders[id].status \in ORDER_STATUSES

C13_ForeignOnlyByAdmin ==
    \A id \in DOMAIN orders' :
        orders'[id].status \notin ORDER_STATUSES =>
            \/ id \in DOMAIN orders /\ orders[id].status = orders'[id].status
            \/ /\ resp'.op = "admin_update_status"
               /\ is_admin(resp'.caller)
               /\ resp'.arg = id
               /\ resp'.status = orders'[id].status

\* C13, what holds: a status outside the six values is stored only by the
\* admin's status callback, which stores the text of its data unchecked; an
\* order is created pending and a user's cancel stores cancelled.
C13_ClosedForUsers == [][C13_ForeignOnlyByAdmin]_vars

\* C13 witness: the admin's callback has stored a status that is none of the six
C13_Witness ==
    /\ resp.op = "admin_update_status"
    /\ resp.result = "updated"
    /\ resp.arg \in DOMAIN orders
    /\ orders[resp.arg].status = "bogus"

\* the admin operations
AdminOps == AdminViews \cup {"admin_update_status", "toggle_item_availability"}

C15_Denied ==
    ( resp'.op \in AdminOps /\ resp'.caller /= admin_id )
        => /\ resp'.result = "denied"
           /\ store' = store

\* C15: an admin operation (the /admin command, admin_panel, admin_stats,
\* admin_orders, admin_order_<id>, admin_update_status_<id>_<status>,
\* admin_menu, admin_category_<c>, admin_toggle_item_<id>) called by someone
\* who is not the admin is answered with access denied and leaves the store
\* unchanged.
C15_NonAdminDenied == [][C15_Denied]_vars

\* C15 witness: a user's status callback on their own pending order was denied
C15_Witness ==
    /\ resp.op = "admin_update_status"
    /\ resp.result = "denied"
    /\ resp.caller \in Users
    /\ resp.arg \in DOMAIN orders
    /\ orders[resp.arg].user_id = resp.caller
    /\ orders[resp.arg].status = "pending"
    /\ resp.status = "delivered"

OrderCallbacks == {"show_order_details", "reorder", "cancel_order"}
ReservationCallbacks == {"show_reservation_details", "cancel_reservation"}

\* the last callback named a record that does not exist or is someone else's
ForeignRecord ==
    \/ /\ resp'.op \in OrderCallbacks
       /\ ~(resp'.arg \in DOMAIN orders /\ orders[resp'.arg].user_id = resp'.caller)
    \/ /\ resp'.op \in ReservationCallbacks
       /\ ~( /\ resp'.arg \in DOMAIN reservations
             /\ reservations[resp'.arg].user_id = resp'.caller )

C14_Own ==
    /\ ForeignRecord => ( resp'.result = "not_found" /\ store' = store )
    /\ resp'.op \in OrderCallbacks \cup ReservationCallbacks =>
           /\ \A id \in DOMAIN orders :
                  orders'[id] /= orders[id] =>
                      id = resp'.arg /\ orders[id].user_id = resp'.caller
           /\ \A id \in DOMAIN reservations :
                  reservations'[id] /= reservations[id] =>
                      id = resp'.arg /\ reservations[id].user_id = resp'.caller
           /\ \A u \in DOMAIN carts : carts'[u] /= carts[u] => u = resp'.caller
           /\ DOMAIN carts' \subseteq DOMAIN carts \cup {resp'.caller}

\* C14: the order and reservation callbacks of a user (view details, reorder,
\* cancel order, cancel reservation) named with the id of a record that does not
\* exist or belongs to someone else answer not found and leave the store
\* unchanged; otherwise they change nothing but the caller's own record or cart.
C14_Ownership == [][C14_Own]_vars

\* C14 witness: a user's cancel of the other user's pending order was answered
\* not found
C14_Witness ==
    /\ resp.op = "cancel_order"
    /\ resp.result = "not_found"
    /\ resp.arg \in DOMAIN orders
    /\ orders[resp.arg].user_id /= resp.caller
    /\ orders[resp.arg].status = "pending"

\* a user's cart as get_cart returns it
CartOf(cs, u) ==
    IF u \in DOMAIN cs THEN cs[u]
    ELSE [items |-> EmptyMap, total |-> 0, discount |-> 0, promo_code |-> None]

C16_Threshold ==
    LET u == resp'.caller
        cart == CartOf(carts, u)
        enough == cart.total - cart.discount >= settings.min_order
    IN  /\ resp'.op = "checkout" =>
              /\ resp'.result = "ok" <=> ( DOMAIN cart.items /= {} /\ enough )
              /\ resp'.result = "ok" =>
                     /\ DOMAIN orders' = DOMAIN orders \cup {order_counter}
                     /\ orders'[order_counter].user_id = u
                     /\ orders'[order_counter].total = cart.total
                     /\ orders'[order_counter].discount = cart.discount
                     /\ order_counter' = order_counter + 1
              /\ resp'.result /= "ok" =>
                     /\ orders' = orders
                     /\ order_counter' = order_counter
                     /\ users' = users
                     /\ \A v \in Users : CartOf(carts', v) = CartOf(carts, v)
        /\ resp'.op = "create_order" =>
              ( resp'.result = "ok" <=> DOMAIN cart.items /= {} )

\* C16: the checkout handler creates an order exactly when the cart has items
\* and its total minus its discount is at least settings.min_order; otherwise
\* no order is created, no id is consumed and every cart reads as before.
\* create_order succeeds on every cart with items, whatever the threshold.
C16_MinOrderAtCheckout == [][C16_Threshold]_vars

\* C16 witness: the handler has refused a cart below the threshold after
\* create_order had accepted one
C16_Witness ==
    /\ resp.op = "checkout"
    /\ resp.result = "below_min_order"
    /\ carts[resp.caller].total > 0
    /\ \E id \in DOMAIN orders :
           orders[id].total - orders[id].discount < settings.min_order

\* C17 as claimed: the promo's own min_order is enforced at checkout: the
\* handler makes no order that carries a promo code whose min_order is above
\* the cart's total.
C17_Original ==
    [][ ( resp'.op = "checkout" /\ resp'.result = "ok"
          /\ orders'[resp'.arg].promo_code /= None )
        => orders'[resp'.arg].total >=
               promo_codes[orders'[resp'.arg].promo_code].min_order ]_vars

\* C17, what holds: apply_promo_code attaches every active code, whatever the
\* code's min_order and the cart's total.
C17_ApplyUnchecked ==
    [][ ( resp'.op = "apply_promo_code" /\ resp'.code \in DOMAIN promo_codes
          /\ promo_codes[resp'.code].is_active )
        => /\ resp'.result = "True"
           /\ carts'[resp'.caller].promo_code = resp'.code ]_vars

\* C17 witness: an order stored by the handler carries the discount of a promo
\* code whose min_order is above the order's total
C17_Witness ==
    /\ resp.op = "checkout"
    /\ resp.result = "ok"
    /\ orders[resp.arg].promo_code = "MIN30"
    /\ orders[resp.arg].discount > 0
    /\ orders[resp.arg].total < promo_codes["MIN30"].min_order

\* every quantity stored in a cart is at least lo and at most hi
QuantitiesWithin(lo, hi) ==
    \A u \in DOMAIN carts :
        \A i \in DOMAIN carts[u].items :
            carts[u].items[i] >= lo /\ carts[u].items[i] <= hi

\* C18 as claimed: after any sequence of user actions every quantity stored in
\* a cart is in [1,100].
C18_Original == QuantitiesWithin(1, 100)

C18_Increment ==
    resp'.op = "increase_quantity" =>
        LET before == QuantityOf(CartOf(carts, resp'.caller), resp'.arg)
        IN  IF before + 1 > 100
            THEN /\ resp'.result = "validation_error"
                 /\ \A v \in Users : CartOf(carts', v) = CartOf(carts, v)
            ELSE /\ resp'.result = "ok"
                 /\ carts'[resp'.caller].items[resp'.arg] = before + 1

\* C18, what holds: the increment is validated: it raises a quantity by one up
\* to 100 and past that is rejected with the cart unchanged; no action stores a
\* quantity below 1.  The add from the menu and the reorder are not validated.
C18_IncrementValidated ==
    [](\A u \in DOMAIN carts : \A i \in DOMAIN carts[u].items :
           carts[u].items[i] >= 1)
    /\ [][C18_Increment]_vars

\* C18 witness: an increment past the limit has been rejected
C18_Witness ==
    /\ resp.op = "increase_quantity"
    /\ resp.result = "validation_error"
    /\ carts[resp.caller].items[resp.arg] = 100

\* The persisted document read as the store's tables
file_carts == file[3]

C19_OnlyLazyCarts ==
    /\ \A k \in (1..11) \ {3} : file[k] = store[k]
    /\ DOMAIN file_carts \subseteq DOMAIN carts
    /\ \A u \in DOMAIN carts :
           IF u \in DOMAIN file_carts THEN file_carts[u] = carts[u]
                                      ELSE carts[u] = EmptyCart

\* C19 as claimed: whenever no operation is in progress the persisted document
\* equals the in-memory store, the lazy creation of a cart record by get_cart
\* included.
C19_Original == file = store

\* C19, what holds: every write of the store other than get_cart's insertion
\* of an empty cart record is saved before the operation returns: the
\* persisted document differs from the store at most by empty cart records
\* that get_cart created, and an operation that saves leaves no difference.
C19_SavedExceptLazyCart ==
    [](C19_OnlyLazyCarts)
    /\ [][file' # file => file' = store']_vars

\* C19 witness: get_cart has created a cart record that the document lacks
C19_Witness ==
    /\ resp.op = "show_cart"
    /\ resp.caller \in DOMAIN carts
    /\ resp.caller \notin DOMAIN file_carts
    /\ carts[resp.caller] = EmptyCart

\* the tasks whose handler has run its first segment
Ran == {k \in TaskIds : tasks[k].pc \in {"awaiting", "done"}}

RanOk(handler, u) ==
    {k \in Ran : /\ tasks[k].handler = handler
                 /\ tasks[k].caller = u
                 /\ tasks[k].result = "ok"}

OnlyRan(handler, u, arg) ==
    /\ Ran # {}
    /\ \A k \in Ran : /\ tasks[k].handler = handler
                      /\ tasks[k].caller = u
                      /\ tasks[k].arg = arg

\* a step that writes the store is the first segment of one task
C20_WriteBeforeAwait ==
    store' # store =>
        \E k \in TaskIds : /\ tasks[k].pc = "ready"
                           /\ tasks'[k].pc = "awaiting"
                           /\ \A j \in TaskIds \ {k} : tasks'[j] = tasks[j]

\* checkouts of one cart that meets the minimum: one order, however many ran
C20_OneOrder ==
    /\ OnlyRan("checkout", 1, 0) =>
           /\ Cardinality(RanOk("checkout", 1)) = 1
           /\ DOMAIN orders = DOMAIN ConcOrders \cup {order_counter - 1}
           /\ Cardinality(DOMAIN orders) = Cardinality(DOMAIN ConcOrders) + 1
    /\ \A u \in Users :
           Cardinality(RanOk("checkout", u)) <= 1 + Cardinality(RanOk("reorder", u))

\* increments of one item: the quantity has grown by the number that ran
C20_Increments ==
    OnlyRan("increase_quantity", 1, 4) =>
        carts[1].items[4] = ConcCarts[1].items[4] + Cardinality(Ran)

\* C20: no mutating handler suspends between its read of the store and its
\* write: in every interleaving of concurrently dispatched handlers the store is
\* written only by a handler's first segment, which also holds its reads, so
\* the store is that of the handlers run serially in the order of their first
\* segments; checkouts of the same cart create exactly one order and n
\* increments of an item raise its quantity by n.
C20_SerialOrder ==
    [](C20_OneOrder /\ C20_Increments) /\ [][C20_WriteBeforeAwait]_vars

\* C20 witness: two checkouts of the same cart in flight at once, the second run
\* while the first is suspended at its answer, and one order created
C20_Witness ==
    /\ \A k \in 1 .. 2 : /\ tasks[k].handler = "checkout"
                         /\ tasks[k].caller = 1
                         /\ tasks[k].pc = "awaiting"
    /\ Cardinality(RanOk("checkout", 1)) = 1
    /\ Cardinality(DOMAIN orders) = Cardinality(DOMAIN ConcOrders) + 1

\* the operations that end in update_cart_total on the caller's cart
Recomputes(op) ==
    op \in {"add_to_cart", "update_cart_item_quantity", "remove_from_cart"}

C21_Recompute ==
    Recomputes(resp'.op) =>
        LET u == resp'.caller
            code == CartOf(carts, u).promo_code
            after == carts'[u]
        IN  /\ resp'.result = "ok"
            /\ IF code = None
               THEN after.promo_code = None /\ after.discount = 0
               ELSE IF get_promo_code(code) /\ promo_codes[code].is_active
               THEN /\ after.promo_code = code
                    /\ after.discount =
                           calculate_discount(after.total, promo_codes[code])
               ELSE /\ after.promo_code = None
                    /\ after.discount = 0

\* C21: a recomputation of a cart whose attached promo is missing or inactive
\* sets the discount to 0 and detaches the code, and the operation returns as
\* it does otherwise; with an active promo the discount is recomputed from the
\* current total and the code stays attached.
C21_StalePromoDetached == [][C21_Recompute]_vars

\* C21 witness: a recomputation has detached an inactive and a missing code
C21_Witness ==
    /\ Recomputes(resp.op)
    /\ \A u \in DOMAIN StaleCarts :
           /\ carts[u].promo_code = None
           /\ carts[u].discount = 0
           /\ carts[u].items # EmptyMap

C22_Unused == \A c \in DOMAIN promo_codes : promo_codes[c].used_count = 0

\* an apply is decided by the promo's existence and is_active flag alone
C22_Apply ==
    resp'.op = "apply_promo_code" =>
        LET c == resp'.code
        IN  (resp'.result = "True") <=>
                (c \in DOMAIN promo_codes /\ promo_codes[c].is_active)

\* a checkout of a cart with an attached promo is decided by the cart alone
C22_Checkout ==
    resp'.op \in {"checkout", "create_order"} =>
        LET cart == CartOf(carts, resp'.caller)
        IN  (cart.items # EmptyMap
             /\ (resp'.op = "checkout" =>
                     cart.total - cart.discount >= settings.min_order))
            => (resp'.result = "ok"
                /\ orders'[resp'.arg].promo_code = cart.promo_code)

C23_Step ==
    \A o \in DOMAIN orders :
        /\ o \in DOMAIN orders'
        /\ orders'[o].status # orders[o].status =>
               /\ orders[o].status = ORDER_STATUS_PENDING
               /\ orders'[o].status = ORDER_STATUS_CANCELLED
               /\ resp'.op = "cancel_order"
               /\ resp'.caller = orders[o].user_id
               /\ resp'.arg = o
               /\ resp'.result = "cancelled"

\* C23: in a run of user actions only, the one status change of an order is
\* pending to cancelled, made by the cancel request of its owner; an order in
\* another status keeps it, and the passing of time changes no status.
C23_OnlyOwnerCancel == [][C23_Step]_vars

\* C23 witness: the owner has cancelled a pending order, and the cancel
\* request for a confirmed order left it confirmed
C23_Witness ==
    /\ \E o \in DOMAIN orders : orders[o].status = ORDER_STATUS_CANCELLED
    /\ resp.op = "cancel_order"
    /\ resp.result = "not_pending"
    /\ orders[resp.arg].status = ORDER_STATUS_CONFIRMED
    /\ now > 0

C24_Update ==
    (resp'.op = "admin_update_status" /\ resp'.result = "updated") =>
        LET o == resp'.arg
        IN  IF o \in DOMAIN orders
            THEN /\ orders' = [orders EXCEPT ![o].status = resp'.status,
                                             ![o].updated_at = now]
                 /\ << menu, users, carts, reservations, reviews, promo_codes,
                       order_counter, reservation_counter, review_counter,
                       settings >>' =
                    << menu, users, carts, reservations, reviews, promo_codes,
                       order_counter, reservation_counter, review_counter,
                       settings >>
            ELSE store' = store

\* C24: an admin status update of an existing order sets the requested status
\* from any current status and stamps updated_at, and nothing else in the
\* store changes; for an order id that does not exist nothing changes.
C24_AdminSetsAnyStatus == [][C24_Update]_vars

\* C24 witness: the order loaded as confirmed has been set back to pending by
\* the admin at a later time, after other updates
C24_Witness ==
    /\ resp.op = "admin_update_status"
    /\ resp.result = "updated"
    /\ resp.arg = 1
    /\ UserRunOrders[1].status = ORDER_STATUS_CONFIRMED
    /\ orders[1].status = ORDER_STATUS_PENDING
    /\ orders[1].updated_at > orders[1].created_at
    /\ nops >= 3

\* C25 as claimed: at most one review per (user, order) pair, and every review
\* refers to an existing order of its author.
C25_Original ==
    /\ \A r, q \in DOMAIN reviews :
           (reviews[r].user_id = reviews[q].user_id
            /\ reviews[r].order_id = reviews[q].order_id) => r = q
    /\ \A r \in DOMAIN reviews :
           /\ reviews[r].order_id \in DOMAIN orders
           /\ orders[reviews[r].order_id].user_id = reviews[r].user_id

C25_Submit ==
    resp'.op = "submit_order_rating" =>
        IF resp'.result = "ok"
        THEN /\ reviews' = Put(reviews, review_counter, reviews'[review_counter])
             /\ review_counter \notin DOMAIN reviews
             /\ reviews'[review_counter].user_id = resp'.caller
             /\ reviews'[review_counter].order_id = resp'.arg
        ELSE store' = store

\* C25, what holds: every stored rating is in [1,5]; a rating request outside
\* the range is refused with the store unchanged, one inside the range adds a
\* review for the caller and the order id of the callback data, whatever the
\* order's owner and the reviews already stored.
C25_RatingInRange ==
    [](\A r \in DOMAIN reviews :
           reviews[r].rating >= MIN_RATING /\ reviews[r].rating <= MAX_RATING)
    /\ [][C25_Submit]_vars

\* C25 witness: a rating out of range sent by the order's owner has been
\* refused
C25_Witness ==
    /\ resp.op = "submit_order_rating"
    /\ resp.result = "error"
    /\ resp.arg \in DOMAIN orders
    /\ orders[resp.arg].user_id = resp.caller
    /\ reviews = EmptyMap

Placed == resp'.op \in {"checkout", "create_order"} /\ resp'.result = "ok"

C26_AvailableSum ==
    Placed =>
        LET o == orders'[resp'.arg]
        IN  o.total = SumItems(o.items, DOMAIN o.items)

\* C26 as claimed: the total stored in an order equals the sum of price x
\* quantity over the order's items that are available when it is placed.
C26_Original == [][C26_AvailableSum]_vars

C26_StoredTotal ==
    Placed =>
        LET cart == carts[resp'.caller]
            o == orders'[resp'.arg]
        IN  /\ o.items = cart.items
            /\ o.total = cart.total
            /\ cart.total = SumItems(cart.items, DOMAIN cart.items)
                   => o.total = SumItems(o.items, DOMAIN o.items)

\* C26, what holds: the order takes the total stored in the cart, which is the
\* sum over the items that were available at the cart's last recomputation;
\* it equals the sum over the currently available items when the stored total
\* is current.
C26_TotalAsStored == [][C26_StoredTotal]_vars

\* C26 witness: an order placed after the admin made an item of the cart
\* unavailable carries that item's price in its total
C26_Witness ==
    /\ resp.op = "checkout"
    /\ resp.result = "ok"
    /\ ~menu[4].available
    /\ orders[resp.arg].items = (4 :> 2)
    /\ orders[resp.arg].total = 2 * menu[4].price

\* a successful cancel of an order or a reservation, or admin status update
Succeeded ==
    \/ resp'.op = "cancel_order" /\ resp'.result = "cancelled"
    \/ resp'.op = "cancel_reservation" /\ resp'.result = "cancelled"
    \/ resp'.op = "admin_update_status" /\ resp'.result = "updated"

C27_AsClaimed ==
    /\ resp'.ending = "error_alert" => store' = store
    /\ Succeeded => resp'.ending # "error_alert"

\* C27 as claimed: a handler that ends with the generic error alert has left
\* the store as it was, and a successful cancel or admin status update ends
\* with the refreshed detail view, not with the error alert.
C27_Original == [][C27_AsClaimed]_vars

C27_Endings ==
    /\ Succeeded => resp'.ending = "error_alert"
    /\ (resp'.op = "cancel_order" /\ resp'.result = "cancelled") =>
           orders'[resp'.arg].status = ORDER_STATUS_CANCELLED
    /\ (resp'.op = "cancel_reservation" /\ resp'.result = "cancelled") =>
           reservations'[resp'.arg].status = "cancelled"
    /\ (resp'.op = "admin_update_status" /\ resp'.result = "updated"
        /\ resp'.arg \in DOMAIN orders) =>
           orders'[resp'.arg].status = resp'.status
    /\ (resp'.ending = "error_alert" /\ ~Succeeded) => store' = store
    /\ resp'.op \in {"show_order_details", "show_reservation_details"} =>
           /\ resp'.ending # "error_alert"
           /\ store' = store

\* C27, what holds: a handler that ends with the generic error alert without
\* having succeeded has left the store as it was, and the detail views opened
\* by their own buttons never end with it; a successful cancel or admin status
\* update has written the store and then ends with the generic error alert,
\* because the refresh reads a word of the callback data as the id.
C27_RefreshFails == [][C27_Endings]_vars

\* C27 witness: the owner's cancel has cancelled the order and ended with the
\* generic error alert
C27_Witness ==
    /\ resp.op = "cancel_order"
    /\ resp.result = "cancelled"
    /\ resp.ending = "error_alert"
    /\ orders[resp.arg].status = ORDER_STATUS_CANCELLED
    /\ file = store

\* the handlers registered for exactly this data
ExactHandlers(parts) ==
    {Routers[k].handler : k \in {j \in DOMAIN Routers :
         Routers[j].kind = "exact" /\ Routers[j].pattern = parts}}

Routed == resp.op = "callback_query"

\* C28 as claimed: every callback with an exact-match handler reaches it and
\* is not captured by an earlier router's prefix filter; add_address reaches
\* add_address_prompt.
C28_Original ==
    Routed =>
        /\ ExactHandlers(Callbacks[resp.arg]) # {} =>
               resp.result \in ExactHandlers(Callbacks[resp.arg])
        /\ Callbacks[resp.arg] = << "add", "address" >> =>
               resp.result = "add_address_prompt"

\* C28, what holds: a callback reaches the first registered handler whose
\* filter matches; every callback with an exact-match handler other than
\* add_address reaches an exact-match handler (apply_promo the cart's, which
\* is registered before the promotions'), and add_address reaches the menu
\* handler add_to_cart registered for the prefix add_.
C28_FirstMatch ==
    Routed =>
        LET parts == Callbacks[resp.arg]
        IN  /\ (ExactHandlers(parts) # {} /\ parts # << "add", "address" >>) =>
                   resp.result \in ExactHandlers(parts)
            /\ parts = << "add", "address" >> => resp.result = "add_to_cart"
            /\ parts = << "apply", "promo" >> =>
                   resp.result = "apply_promo_prompt"
            /\ resp.result = "unhandled" <=>
                   \A k \in DOMAIN Routers : ~Matches(Routers[k], parts)

\* C28 witness: add_address has been routed to the menu's add_to_cart
C28_Witness ==
    /\ Routed
    /\ Callbacks[resp.arg] = << "add", "address" >>
    /\ resp.result = "add_to_cart"

C29_Reorder ==
    resp'.op = "reorder" =>
        LET u == resp'.caller
            o == resp'.arg
        IN  /\ orders' = orders
            /\ IF o \in DOMAIN orders /\ orders[o].user_id = u
               THEN LET its == orders[o].items
                        ok == {i \in DOMAIN its :
                                  i \in DOMAIN menu /\ menu[i].available}
                    IN  IF ok = {}
                        THEN carts' = carts /\ resp'.result = "unavailable"
                        ELSE /\ resp'.result = "ok"
                             /\ DOMAIN carts'[u].items =
                                    DOMAIN CartOf(carts, u).items \cup ok
                             /\ \A i \in DOMAIN carts'[u].items :
                                    carts'[u].items[i] =
                                        QuantityOf(CartOf(carts, u), i)
                                        + (IF i \in ok THEN its[i] ELSE 0)
                             /\ \A v \in DOMAIN carts \ {u} : carts'[v] = carts[v]
               ELSE carts' = carts /\ resp'.result = "not_found"

\* C29: a reorder by the owner adds, for each item of the order that the menu
\* has and that is available, the order's quantity to the cart's quantity of
\* the item and skips the others; with no such item the cart is unchanged;
\* the order is never modified.
C29_ReorderAdds == [][C29_Reorder]_vars

\* C29 witness: a reorder has added the available item 7 to a cart that held
\* item 4 and skipped the unavailable item 4 and the missing item 99
C29_Witness ==
    /\ resp.op = "reorder"
    /\ resp.result = "ok"
    /\ ~menu[4].available
    /\ carts[1].items = (4 :> 1) @@ (7 :> 1)
    /\ orders = ReorderOrders

\* the claim as stated: a cancel-reservation request changes a reservation
\* only when it is pending; a confirmed, cancelled or completed reservation
\* keeps its status and updated_at; nothing else changes a status
C30_AsClaimed ==
    \A r \in DOMAIN reservations :
        /\ reservations'[r].status # reservations[r].status =>
               /\ resp'.op = "cancel_reservation"
               /\ resp'.arg = r
               /\ resp'.caller = reservations[r].user_id
               /\ reservations[r].status = "pending"
               /\ reservations'[r].status = "cancelled"
        /\ reservations[r].status \in {"confirmed", "cancelled", "completed"} =>
               /\ reservations'[r].status = reservations[r].status
               /\ reservations'[r].updated_at = reservations[r].updated_at

\* C30 as stated: a user's cancel-reservation request changes their
\* reservation to cancelled only when its status is pending; a confirmed,
\* cancelled or completed reservation keeps its status and updated_at; no
\* reservation status changes without an external action.
C30_Original == [][C30_AsClaimed]_vars

C30_Cancel ==
    /\ DOMAIN reservations' = DOMAIN reservations
    /\ \A r \in DOMAIN reservations :
           IF /\ resp'.op = "cancel_reservation"
              /\ resp'.arg = r
              /\ resp'.caller = reservations[r].user_id
           THEN /\ resp'.result = "cancelled"
                /\ reservations'[r] =
                       [reservations[r] EXCEPT !.status = "cancelled",
                                               !.updated_at = now]
           ELSE reservations'[r] = reservations[r]

\* C30, what the handler does: the owner's cancel-reservation request sets
\* the reservation to cancelled and its updated_at to the current time
\* whatever its status was; a request of another user, and every other step
\* (the passing of time included), leaves every reservation as it was.
C30_OwnerCancelsAnyStatus == [][C30_Cancel]_vars

\* C30 witness: the owner's cancel request, made after time has passed, has
\* turned the reservation loaded as confirmed into a cancelled one with a
\* new updated_at
C30_Witness ==
    /\ resp.op = "cancel_reservation"
    /\ resp.result = "cancelled"
    /\ resp.arg = 2
    /\ LoadedReservations[2].status = "confirmed"
    /\ reservations[2].status = "cancelled"
    /\ reservations[2].updated_at = now
    /\ now > LoadedReservations[2].updated_at

====
